---------------------------- MODULE Spec2Model ----------------------------
(***************************************************************************)
(* Model of the golf JSON-RPC audit gateway (niki4smirn/golf).             *)
(*                                                                         *)
(*   internal/gateway/gateway.go    the forwarding pipeline                *)
(*   internal/database/database.go  the SQLite audit store, DualDatabase   *)
(*   internal/database/tinybird.go  the Tinybird telemetry sink            *)
(*                                                                         *)
(* Text (bodies, error messages, JSON documents) is a sequence of string   *)
(* fragments; a fragment stands for the characters it spells.              *)
(***************************************************************************)
EXTENDS Integers, Sequences, FiniteSets, Bags, TLC

(***************************************************************************)
(* Bounds of the model.                                                    *)
(***************************************************************************)
MaxCalls == 2       \* ProxyJSONRPC calls in flight in one behaviour
MaxTime == 1        \* largest reading of the wall clock (time.Now)
MaxRows == 2        \* rows per table in the store-level specification

CallIds == 1..MaxCalls
Times == 0..MaxTime

VARIABLES
    targetURL,        \* Gateway.targetURL
    tinybirdDB,       \* Gateway.tinybirdDB # nil
    audit_requests,   \* table audit_requests, in rowid order
    audit_responses,  \* table audit_responses, in rowid order
    tinybird,         \* events posted to the Tinybird Events API, in order
    upstream,         \* requests issued by httpClient.Do, in order
    now,              \* the wall clock
    calls,            \* per ProxyJSONRPC call: its locals and position
    ret               \* what the last direct store / DualDatabase call returned

vars == <<targetURL, tinybirdDB, audit_requests, audit_responses, tinybird,
          upstream, now, calls, ret>>

(***************************************************************************)
(* Text helpers.                                                           *)
(***************************************************************************)
NoText == <<>>

\* JSON tokens: insignificant whitespace, a string quote, the braces of an
\* object, whole JSON values, and bytes that are no JSON at all.
WS == " "
QUOTE == "\""
LBRACE == "{"
RBRACE == "}"
JUNK == "not-json"
NULL == "null"
PING == "{\"jsonrpc\":\"2.0\",\"method\":\"ping\",\"id\":1}"
ECHO == "{\"jsonrpc\":\"2.0\",\"method\":\"echo\",\"id\":2}"
NOMETHOD == "{\"jsonrpc\":\"2.0\",\"id\":3}"

JSONValues == {PING, ECHO, NOMETHOD, NULL}

\* A nil json.RawMessage / []byte, as opposed to an empty one.
Nil == <<"<nil>">>

\* json.Compact: whitespace outside string literals removed.
RECURSIVE CompactFrom(_, _)
CompactFrom(b, inString) ==
    IF b = <<>> THEN <<>>
    ELSE IF Head(b) = QUOTE THEN <<QUOTE>> \o CompactFrom(Tail(b), ~inString)
    ELSE IF Head(b) = WS /\ ~inString THEN CompactFrom(Tail(b), inString)
    ELSE <<Head(b)>> \o CompactFrom(Tail(b), inString)

JSONCompact(b) == CompactFrom(b, FALSE)

\* encoding/json's validity scan: exactly one JSON value, surrounded by
\* optional whitespace. An object spelled out member by member (the output
\* of json.Marshal on a map) is a value too.
JSONValid(b) ==
    LET c == JSONCompact(b)
    IN \/ Len(c) = 1 /\ c[1] \in JSONValues
       \/ /\ Len(c) >= 2
          /\ c[1] = LBRACE
          /\ c[Len(c)] = RBRACE
          /\ \A i \in 2..(Len(c) - 1) : c[i] \notin {JUNK, LBRACE, RBRACE}

\* json.Marshal of a json.RawMessage: "null" for a nil message, else the
\* message's own bytes, validated and compacted; an error when they are not
\* valid JSON.
MarshalRawMessage(m) ==
    IF m = Nil THEN [err |-> FALSE, out |-> <<NULL>>]
    ELSE IF JSONValid(m) THEN [err |-> FALSE, out |-> JSONCompact(m)]
    ELSE [err |-> TRUE, out |-> NoText]

\* json.Marshal of a []byte: a JSON string holding the base64 of the bytes.
MarshalBytes(b) == <<QUOTE, "base64(">> \o b \o <<")", QUOTE>>

\* json.Unmarshal(body, &jsonRPCReq) and the Method field it fills: "" when
\* the body does not parse or carries no method.
ParsedMethod(b) ==
    LET c == JSONCompact(b)
    IN IF ~JSONValid(b) THEN ""
       ELSE CASE c[1] = PING -> "ping"
              [] c[1] = ECHO -> "echo"
              [] OTHER -> ""

(***************************************************************************)
(* strings.* helpers, on fragments.                                        *)
(***************************************************************************)
NL == "\n"
SP == " "
EVENT == "event:"
DATA == "data:"
COMMA == ","
COLON == ":"

\* unicode.IsSpace for the fragments of the model.
IsSpace(t) == t \in {SP, NL, "\t", "\r"}

\* strings.HasPrefix
HasPrefix(s, p) == Len(s) >= Len(p) /\ SubSeq(s, 1, Len(p)) = p

\* strings.TrimPrefix
TrimPrefix(s, p) == IF HasPrefix(s, p) THEN SubSeq(s, Len(p) + 1, Len(s)) ELSE s

RECURSIVE TrimLeft(_)
TrimLeft(s) == IF s # <<>> /\ IsSpace(Head(s)) THEN TrimLeft(Tail(s)) ELSE s

RECURSIVE TrimRight(_)
TrimRight(s) ==
    IF s # <<>> /\ IsSpace(s[Len(s)]) THEN TrimRight(SubSeq(s, 1, Len(s) - 1)) ELSE s

\* strings.TrimSpace
TrimSpace(s) == TrimRight(TrimLeft(s))

\* strings.Split(s, sep) for a one-fragment separator: always at least one
\* element.
RECURSIVE SplitFrom(_, _, _)
SplitFrom(s, sep, cur) ==
    IF s = <<>> THEN <<cur>>
    ELSE IF Head(s) = sep THEN <<cur>> \o SplitFrom(Tail(s), sep, <<>>)
    ELSE SplitFrom(Tail(s), sep, Append(cur, Head(s)))

Split(s, sep) == SplitFrom(s, sep, <<>>)

\* strings.LastIndex for a one-fragment needle: 0 when absent (Go: -1).
LastIndex(s, t) ==
    IF \E i \in 1..Len(s) : s[i] = t
    THEN CHOOSE i \in 1..Len(s) : s[i] = t /\ \A j \in (i + 1)..Len(s) : s[j] # t
    ELSE 0

\* The jsonData builder of unwrapSSEResponse: the payloads of the "data: "
\* lines, in order.
RECURSIVE DataPayloads(_)
DataPayloads(lines) ==
    IF lines = <<>> THEN <<>>
    ELSE LET line == TrimSpace(Head(lines))
         IN (IF HasPrefix(line, <<DATA, SP>>) THEN TrimPrefix(line, <<DATA, SP>>)
             ELSE <<>>) \o DataPayloads(Tail(lines))

\* A faulty variant of unwrapSSEResponse: the test of how the body begins is
\* missing, so the "data: " lines of any body are extracted.
unwrapSSEResponseWithoutPrefixCheck(data) ==
    LET result == DataPayloads(Split(data, NL))
    IN IF result = <<>> THEN data ELSE result

\* unwrapSSEResponse removes the SSE wrapper from response data.
unwrapSSEResponse(data) ==
    IF ~HasPrefix(data, <<EVENT>>) /\ ~HasPrefix(data, <<DATA>>) THEN data
    ELSE LET result == DataPayloads(Split(data, NL))
         IN IF result = <<>> THEN data ELSE result


(***************************************************************************)
(* The audit store: internal/database/database.go.                         *)
(*                                                                         *)
(* A table is the sequence of its rows in rowid order. ids are AUTOINCREMENT*)
(* and no row is ever deleted, so the next id is the row count plus one.   *)
(* SQLite runs each statement atomically; io says whether the statement's  *)
(* I/O succeeds (disk error, SQLITE_BUSY, ...).                            *)
(***************************************************************************)
NoError == ""

\* A faulty variant of UniqueRequestID: the column has no UNIQUE constraint.
NoUniqueConstraint(rows, rid) == TRUE

\* request_id TEXT UNIQUE NOT NULL
UniqueRequestID(rows, rid) == \A i \in 1..Len(rows) : rows[i].request_id # rid

\* A faulty variant of InsertAuditRequest: the error of db.Exec is dropped, so a
\* failed statement is reported as a stored row.
InsertAuditRequestIgnoringExecError(rows, req, io) ==
    LET requestJSON == MarshalRawMessage(req.Request)
    IN IF requestJSON.err THEN [err |-> "failed to marshal request", rows |-> rows, id |-> 0]
       ELSE IF ~io \/ ~UniqueRequestID(rows, req.RequestID)
       THEN [err |-> NoError, rows |-> rows, id |-> 0]
       ELSE [err |-> NoError,
             id |-> Len(rows) + 1,
             rows |-> Append(rows, [id |-> Len(rows) + 1,
                                    timestamp |-> req.Timestamp,
                                    method |-> req.Method,
                                    request_id |-> req.RequestID,
                                    ip_address |-> req.IPAddress,
                                    user_agent |-> req.UserAgent,
                                    request |-> requestJSON.out,
                                    headers |-> MarshalRawMessage(req.Headers).out])]

\* Database.InsertAuditRequest: the result and the table afterwards.
InsertAuditRequest(rows, req, io) ==
    LET requestJSON == MarshalRawMessage(req.Request)
        headersJSON == IF req.Headers # Nil THEN MarshalRawMessage(req.Headers)
                       ELSE [err |-> FALSE, out |-> NoText]
    IN IF requestJSON.err THEN [err |-> "failed to marshal request", rows |-> rows, id |-> 0]
       ELSE IF headersJSON.err THEN [err |-> "failed to marshal headers", rows |-> rows, id |-> 0]
       ELSE IF ~io \/ ~UniqueRequestID(rows, req.RequestID)
       THEN [err |-> "failed to insert audit request", rows |-> rows, id |-> 0]
       ELSE [err |-> NoError,
             id |-> Len(rows) + 1,
             rows |-> Append(rows, [id |-> Len(rows) + 1,
                                    timestamp |-> req.Timestamp,
                                    method |-> req.Method,
                                    request_id |-> req.RequestID,
                                    ip_address |-> req.IPAddress,
                                    user_agent |-> req.UserAgent,
                                    request |-> requestJSON.out,
                                    headers |-> headersJSON.out])]

\* A faulty variant of InsertAuditResponse: the foreign key on request_id is
\* enforced, so a response whose request is not stored is refused.
InsertAuditResponseEnforcingForeignKey(rows, resp, io) ==
    LET responseJSON == IF resp.Response # Nil
                        THEN MarshalBytes(unwrapSSEResponse(resp.Response))
                        ELSE NoText
    IN IF ~io \/ \A i \in DOMAIN audit_requests :
                    audit_requests[i].request_id # resp.RequestID
       THEN [err |-> "failed to insert audit response", rows |-> rows, id |-> 0]
       ELSE [err |-> NoError,
             id |-> Len(rows) + 1,
             rows |-> Append(rows, [id |-> Len(rows) + 1,
                                    request_id |-> resp.RequestID,
                                    timestamp |-> resp.Timestamp,
                                    response |-> responseJSON,
                                    status_code |-> resp.StatusCode,
                                    process_time_ms |-> resp.ProcessTime,
                                    error |-> resp.Error])]

\* A faulty variant of InsertAuditResponse: INSERT OR REPLACE keyed on
\* request_id, so a second response overwrites the row of the first.
InsertAuditResponseReplacing(rows, resp, io) ==
    LET responseJSON == IF resp.Response # Nil
                        THEN MarshalBytes(unwrapSSEResponse(resp.Response))
                        ELSE NoText
        row == [id |-> Len(rows) + 1,
                request_id |-> resp.RequestID,
                timestamp |-> resp.Timestamp,
                response |-> responseJSON,
                status_code |-> resp.StatusCode,
                process_time_ms |-> resp.ProcessTime,
                error |-> resp.Error]
    IN IF ~io THEN [err |-> "failed to insert audit response", rows |-> rows, id |-> 0]
       ELSE IF \E i \in DOMAIN rows : rows[i].request_id = resp.RequestID
       THEN LET i == CHOOSE k \in DOMAIN rows : rows[k].request_id = resp.RequestID
            IN [err |-> NoError, id |-> rows[i].id,
                rows |-> [rows EXCEPT ![i] = [row EXCEPT !.id = rows[i].id]]]
       ELSE [err |-> NoError, id |-> Len(rows) + 1, rows |-> Append(rows, row)]

\* Database.InsertAuditResponse: the result and the table afterwards. The
\* table declares a foreign key on request_id, which SQLite does not enforce
\* (PRAGMA foreign_keys is never switched on), and no uniqueness.
InsertAuditResponse(rows, resp, io) ==
    LET responseJSON == IF resp.Response # Nil
                        THEN MarshalBytes(unwrapSSEResponse(resp.Response))
                        ELSE NoText
    IN IF ~io THEN [err |-> "failed to insert audit response", rows |-> rows, id |-> 0]
       ELSE [err |-> NoError,
             id |-> Len(rows) + 1,
             rows |-> Append(rows, [id |-> Len(rows) + 1,
                                    request_id |-> resp.RequestID,
                                    timestamp |-> resp.Timestamp,
                                    response |-> responseJSON,
                                    status_code |-> resp.StatusCode,
                                    process_time_ms |-> resp.ProcessTime,
                                    error |-> resp.Error])]


\* Database.InsertAuditLog (legacy): the request row, then the response row
\* when the log carries an outcome. Returns the error and both tables.
InsertAuditLog(reqs, resps, log, ioReq, ioResp) ==
    LET r1 == InsertAuditRequest(reqs,
                  [Timestamp |-> log.Timestamp, Method |-> log.Method,
                   RequestID |-> log.RequestID, IPAddress |-> log.IPAddress,
                   UserAgent |-> log.UserAgent, Request |-> log.Request,
                   Headers |-> log.Headers], ioReq)
        r2 == InsertAuditResponse(resps,
                  [RequestID |-> log.RequestID, Timestamp |-> log.Timestamp,
                   Response |-> log.Response, StatusCode |-> log.StatusCode,
                   ProcessTime |-> log.ProcessTime, Error |-> log.Error], ioResp)
    IN IF r1.err # NoError THEN [err |-> r1.err, reqs |-> reqs, resps |-> resps]
       ELSE IF log.StatusCode > 0 \/ log.Response # Nil \/ log.Error # NoText
       THEN (IF r2.err # NoError THEN [err |-> r2.err, reqs |-> r1.rows, resps |-> resps]
             ELSE [err |-> NoError, reqs |-> r1.rows, resps |-> r2.rows])
       ELSE [err |-> NoError, reqs |-> r1.rows, resps |-> resps]

\* SQL NULL in a request_id column.
NULLID == <<>>

\* The right side of a LEFT JOIN row that found no match: every column NULL.
NullResponse ==
    [id |-> 0, request_id |-> NULLID, timestamp |-> 0, response |-> NoText,
     status_code |-> 0, process_time_ms |-> 0, error |-> NoText]

\* The audit_responses rows with request_id rid, in rowid order.
Matching(resps, rid) == SelectSeq(resps, LAMBDA p : p.request_id = rid)

\* A faulty variant of LeftJoin: an inner JOIN, which drops the requests that have
\* no response.
RECURSIVE InnerJoin(_, _)
InnerJoin(reqs, resps) ==
    IF reqs = <<>> THEN <<>>
    ELSE LET m == Matching(resps, Head(reqs).request_id)
         IN [i \in 1..Len(m) |-> [r |-> Head(reqs), resp |-> m[i]]]
            \o InnerJoin(Tail(reqs), resps)

\* audit_requests r LEFT JOIN audit_responses resp ON r.request_id =
\* resp.request_id: one row per matching pair, and one row with a NULL right
\* side per request that has no match.
RECURSIVE LeftJoin(_, _)
LeftJoin(reqs, resps) ==
    IF reqs = <<>> THEN <<>>
    ELSE LET r == Head(reqs)
             m == Matching(resps, r.request_id)
         IN (IF m = <<>> THEN <<[r |-> r, resp |-> NullResponse]>>
             ELSE [i \in 1..Len(m) |-> [r |-> r, resp |-> m[i]]])
            \o LeftJoin(Tail(reqs), resps)

\* ORDER BY r.timestamp DESC over joined rows. SQL leaves the order of rows
\* with equal timestamps open; this sort keeps them in their join order.
RECURSIVE InsertByTimestampDesc(_, _)
InsertByTimestampDesc(sorted, x) ==
    IF sorted = <<>> THEN <<x>>
    ELSE IF Head(sorted).r.timestamp >= x.r.timestamp
    THEN <<Head(sorted)>> \o InsertByTimestampDesc(Tail(sorted), x)
    ELSE <<x>> \o sorted

RECURSIVE OrderByTimestampDesc(_)
OrderByTimestampDesc(rows) ==
    IF rows = <<>> THEN <<>>
    ELSE InsertByTimestampDesc(OrderByTimestampDesc(SubSeq(rows, 1, Len(rows) - 1)),
                               rows[Len(rows)])

\* LIMIT limit OFFSET offset
LimitOffset(rows, limit, offset) ==
    SubSeq(rows, offset + 1, IF offset + limit < Len(rows) THEN offset + limit ELSE Len(rows))

\* Scanning a nullable JSON column through sql.NullString: the RawMessage
\* stays nil when the column is NULL.
ScanNullable(col) == IF col = NoText THEN Nil ELSE col

\* rows.Scan into a types.AuditRequest.
ScanAuditRequest(row) ==
    [ID |-> row.id, Timestamp |-> row.timestamp, Method |-> row.method,
     RequestID |-> row.request_id, IPAddress |-> row.ip_address,
     UserAgent |-> row.user_agent, Request |-> row.request,
     Headers |-> ScanNullable(row.headers)]

\* ORDER BY timestamp DESC over the rows of one table; rows with equal
\* timestamps stay in rowid order.
RECURSIVE InsertRowByTimestampDesc(_, _)
InsertRowByTimestampDesc(sorted, x) ==
    IF sorted = <<>> THEN <<x>>
    ELSE IF Head(sorted).timestamp >= x.timestamp
    THEN <<Head(sorted)>> \o InsertRowByTimestampDesc(Tail(sorted), x)
    ELSE <<x>> \o sorted

RECURSIVE OrderRowsByTimestampDesc(_)
OrderRowsByTimestampDesc(rows) ==
    IF rows = <<>> THEN <<>>
    ELSE InsertRowByTimestampDesc(OrderRowsByTimestampDesc(SubSeq(rows, 1, Len(rows) - 1)),
                                  rows[Len(rows)])

\* rows.Scan into a types.AuditResponse: the response column becomes the
\* RawMessage as it is stored.
ScanAuditResponse(row) ==
    [ID |-> row.id, RequestID |-> row.request_id, Timestamp |-> row.timestamp,
     Response |-> row.response, StatusCode |-> row.status_code,
     ProcessTime |-> row.process_time_ms, Error |-> row.error]

\* Database.GetAuditRequests on the table reqs.
GetAuditRequests(reqs, limit, offset) ==
    LET page == LimitOffset(OrderRowsByTimestampDesc(reqs), limit, offset)
    IN [i \in 1..Len(page) |-> ScanAuditRequest(page[i])]

\* Database.GetAuditResponses on the table resps.
GetAuditResponses(resps, limit, offset) ==
    LET page == LimitOffset(OrderRowsByTimestampDesc(resps), limit, offset)
    IN [i \in 1..Len(page) |-> ScanAuditResponse(page[i])]

\* The audit_logs view: every request row LEFT JOINed with its responses,
\* the response columns COALESCEd ('{}', 0, 0) and error left NULL (empty)
\* where no response matched.
AuditLogsView(reqs, resps) ==
    LET joined == LeftJoin(reqs, resps)
    IN [i \in 1..Len(joined) |->
          LET j == joined[i]
              matched == j.resp.request_id # NULLID
          IN [id |-> j.r.id, timestamp |-> j.r.timestamp, method |-> j.r.method,
              request_id |-> j.r.request_id, ip_address |-> j.r.ip_address,
              user_agent |-> j.r.user_agent, request |-> j.r.request,
              headers |-> j.r.headers,
              response |-> IF matched THEN j.resp.response ELSE <<LBRACE, RBRACE>>,
              status_code |-> IF matched THEN j.resp.status_code ELSE 0,
              process_time_ms |-> IF matched THEN j.resp.process_time_ms ELSE 0,
              error |-> IF matched THEN j.resp.error ELSE NoText]]

\* rows.Scan into a types.AuditLog, all twelve columns.
ScanAuditLog(row) ==
    [ID |-> row.id, Timestamp |-> row.timestamp, Method |-> row.method,
     RequestID |-> row.request_id, IPAddress |-> row.ip_address,
     UserAgent |-> row.user_agent, Request |-> row.request,
     Headers |-> ScanNullable(row.headers),
     Response |-> row.response, StatusCode |-> row.status_code,
     ProcessTime |-> row.process_time_ms, Error |-> row.error]

\* Database.GetAuditLogs on the tables reqs and resps.
GetAuditLogs(reqs, resps, limit, offset) ==
    LET page == LimitOffset(OrderRowsByTimestampDesc(AuditLogsView(reqs, resps)),
                            limit, offset)
    IN [i \in 1..Len(page) |-> ScanAuditLog(page[i])]

\* Database.GetAuditLogsByMethod: WHERE method = ?, and the headers column
\* is not selected, so Headers stays nil.
GetAuditLogsByMethod(reqs, resps, method, limit, offset) ==
    LET rows == SelectSeq(AuditLogsView(reqs, resps), LAMBDA v : v.method = method)
        page == LimitOffset(OrderRowsByTimestampDesc(rows), limit, offset)
    IN [i \in 1..Len(page) |-> [ScanAuditLog(page[i]) EXCEPT !.Headers = Nil]]

\* A faulty variant of GetOrphanedRequests: the WHERE resp.request_id IS NULL clause is
\* missing, so the query is the bare LEFT JOIN.
GetOrphanedRequestsUnfiltered(reqs, resps, limit, offset) ==
    LET page == LimitOffset(OrderByTimestampDesc(LeftJoin(reqs, resps)), limit, offset)
    IN [i \in 1..Len(page) |-> ScanAuditRequest(page[i].r)]

\* Database.GetOrphanedRequests on the tables reqs and resps.
GetOrphanedRequests(reqs, resps, limit, offset) ==
    LET joined == SelectSeq(LeftJoin(reqs, resps), LAMBDA j : j.resp.request_id = NULLID)
        page == LimitOffset(OrderByTimestampDesc(joined), limit, offset)
    IN [i \in 1..Len(page) |-> ScanAuditRequest(page[i].r)]

(***************************************************************************)
(* The telemetry sink: internal/database/tinybird.go.                      *)
(*                                                                         *)
(* An answer of the Events API is a transport error or an HTTP status.     *)
(***************************************************************************)
StatusOK == 200
StatusAccepted == 202
StatusBadRequest == 400
StatusInternalServerError == 500
StatusBadGateway == 502
StatusServiceUnavailable == 503

TinybirdAnswers ==
    { [transport |-> TRUE, status |-> 0],
      [transport |-> FALSE, status |-> StatusOK],
      [transport |-> FALSE, status |-> StatusAccepted],
      [transport |-> FALSE, status |-> StatusInternalServerError] }

\* The answers the pipeline's behaviours draw from: one the sink takes for
\* success and one it takes for failure.
PipelineAnswers ==
    { [transport |-> FALSE, status |-> StatusAccepted],
      [transport |-> FALSE, status |-> StatusInternalServerError] }

\* A faulty variant of sendEvent: every 2xx status is taken for success.
sendEventAny2xx(answer) ==
    IF answer.transport THEN "failed to send event"
    ELSE IF answer.status < 200 \/ answer.status > 299
    THEN "tinybird returned status"
    ELSE NoError

\* TinybirdDatabase.sendEvent: the error it returns for an answer.
sendEvent(answer) ==
    IF answer.transport THEN "failed to send event"
    ELSE IF answer.status # StatusAccepted /\ answer.status # StatusOK
    THEN "tinybird returned status"
    ELSE NoError

\* TinybirdDatabase.InsertAuditRequest: the event it posts.
TinybirdRequestEvent(req, t) ==
    [datasource |-> "audit_requests", id |-> t, request_id |-> req.RequestID,
     timestamp |-> req.Timestamp, method |-> req.Method,
     payload |-> req.Request, status_code |-> 0, error |-> NoText]

\* TinybirdDatabase.InsertAuditResponse: the event it posts.
TinybirdResponseEvent(resp, t) ==
    [datasource |-> "audit_responses", id |-> t, request_id |-> resp.RequestID,
     timestamp |-> resp.Timestamp, method |-> "",
     payload |-> resp.Response, status_code |-> resp.StatusCode,
     error |-> resp.Error]


(***************************************************************************)
(* The forwarding pipeline: internal/gateway/gateway.go.                   *)
(***************************************************************************)
NanosPerSecond == 1000000000

\* generateRequestID: "req_<UnixNano>_<Unix % 1000>" of the clock reading t
\* (in nanoseconds).
generateRequestID(t) == <<"req", t, (t \div NanosPerSecond) % 1000>>

\* http.Header.Get: the first value of the header, "" when absent.
HeaderGet(h, name) ==
    IF name \in DOMAIN h /\ Len(h[name]) > 0 THEN h[name][1] ELSE NoText

\* getClientIP: X-Forwarded-For's first element, else X-Real-IP, else
\* RemoteAddr with its port stripped.
getClientIP(r) ==
    LET xff == HeaderGet(r.Header, "X-Forwarded-For")
        xri == HeaderGet(r.Header, "X-Real-Ip")
        colon == LastIndex(r.RemoteAddr, COLON)
    IN IF xff # NoText THEN TrimSpace(Split(xff, COMMA)[1])
       ELSE IF xri # NoText THEN xri
       ELSE IF colon # 0 THEN SubSeq(r.RemoteAddr, 1, colon - 1)
       ELSE r.RemoteAddr

\* The header names of the model in the order json.Marshal writes map keys.
HeaderOrder == <<"User-Agent", "X-Forwarded-For", "X-Real-Ip">>

\* json.Marshal of the captured headers map (first value per name).
RECURSIVE HeaderMembers(_, _)
HeaderMembers(h, names) ==
    IF names = <<>> THEN <<>>
    ELSE LET member == IF Head(names) \in DOMAIN h /\ Len(h[Head(names)]) > 0
                       THEN <<QUOTE, Head(names), QUOTE, COLON, QUOTE>>
                                \o h[Head(names)][1] \o <<QUOTE>>
                       ELSE <<>>
             rest == HeaderMembers(h, Tail(names))
         IN IF member = <<>> THEN rest
            ELSE IF rest = <<>> THEN member
            ELSE member \o <<COMMA>> \o rest

CapturedHeadersJSON(h) == <<LBRACE>> \o HeaderMembers(h, HeaderOrder) \o <<RBRACE>>

\* The inbound requests of the model: (1) a JSON-RPC call behind a proxy,
\* (2) a body that is no JSON, sent directly, (3) a body whose read fails,
\* (4) a JSON-RPC call with insignificant whitespace after its value.
Requests ==
    { [body |-> <<PING>>, bodyErr |-> FALSE,
       Header |-> ("User-Agent" :> <<<<"curl/8">>>>) @@
                  ("X-Forwarded-For" :> <<<<"10.0.0.1", COMMA, SP, "10.0.0.2">>>>),
       RemoteAddr |-> <<"192.0.2.7", COLON, "51234">>],
      [body |-> <<JUNK>>, bodyErr |-> FALSE,
       Header |-> ("User-Agent" :> <<<<"curl/8">>>>),
       RemoteAddr |-> <<"192.0.2.7", COLON, "51234">>],
      [body |-> NoText, bodyErr |-> TRUE,
       Header |-> ("User-Agent" :> <<<<"curl/8">>>>),
       RemoteAddr |-> <<"192.0.2.7", COLON, "51234">>],
      [body |-> <<ECHO, WS>>, bodyErr |-> FALSE,
       Header |-> ("User-Agent" :> <<<<"curl/8">>>>),
       RemoteAddr |-> <<"192.0.2.7", COLON, "51234">>] }

\* Gateway.targetURL: not configured, a URL http.NewRequest accepts, and one
\* it rejects.
NoTarget == ""
GoodTarget == "http://upstream:9000/rpc"
BadTarget == "://missing-scheme"
TargetURLs == {NoTarget, GoodTarget, BadTarget}

\* http.NewRequest("POST", url, body): whether it returns an error.
NewRequestFails(url) == url = BadTarget

\* What the upstream can do with one forwarded request: a transport error
\* from httpClient.Do, a response whose body read fails, or a response.
PlainBody == <<"{\"jsonrpc\":\"2.0\",\"result\":{\"pong\":true},\"id\":1}">>
SSEBody == <<EVENT, SP, "message", NL, DATA, SP, "{\"a\":1}", NL, NL, DATA, SP, "{\"b\":2}">>
UpstreamHeader ==
    ("Content-Type" :> <<<<"application/json">>>>) @@
    ("Set-Cookie" :> <<<<"a=1">>, <<"b=2">>>>)

UpstreamOutcomes ==
    { [kind |-> "transport", err |-> <<"dial tcp: connection refused">>,
       StatusCode |-> 0, Header |-> <<>>, body |-> NoText],
      [kind |-> "readfail", err |-> NoText,
       StatusCode |-> StatusOK, Header |-> UpstreamHeader, body |-> NoText],
      [kind |-> "ok", err |-> NoText,
       StatusCode |-> StatusOK, Header |-> UpstreamHeader, body |-> PlainBody],
      [kind |-> "ok", err |-> NoText,
       StatusCode |-> StatusOK, Header |-> UpstreamHeader, body |-> SSEBody] }

\* json.Marshal(errorResp) in handleError: the JSON-RPC error envelope.
ErrorEnvelope(errorMsg) ==
    <<"{\"id\":null,\"jsonrpc\":\"2.0\",\"error\":{\"code\":-32603,\"message\":\"Internal error\",\"data\":", QUOTE>>
        \o errorMsg \o <<QUOTE, "}}">>

\* The ResponseWriter of a call before anything is written to it.
NoResponse == [written |-> FALSE, status |-> 0, header |-> <<>>, body |-> NoText]

\* http.Error(w, msg, code)
HttpError(msg, code) ==
    [written |-> TRUE, status |-> code,
     header |-> ("Content-Type" :> <<"text/plain; charset=utf-8">>) @@
                ("X-Content-Type-Options" :> <<"nosniff">>),
     body |-> msg \o <<NL>>]

\* The locals of a call that has not started.
IdleCall ==
    [pc |-> "idle", r |-> [body |-> NoText, bodyErr |-> FALSE, Header |-> <<>>, RemoteAddr |-> NoText],
     requestID |-> <<>>, startTime |-> 0, method |-> "",
     up |-> [kind |-> "none", err |-> NoText, StatusCode |-> 0, Header |-> <<>>, body |-> NoText],
     path |-> "", statusCode |-> 0, errorMsg |-> NoText, responseBody |-> NoText,
     respTime |-> 0, w |-> NoResponse, trace |-> <<>>]


NanosPerMilli == 1000000

\* One entry of a call's trace: a call it made on a collaborator, whether
\* that call returned without error, and the row id an insert assigned to
\* the record (req.ID / resp.ID; 0 when no row was written).
Did(op, ok, id) == [op |-> op, ok |-> ok, id |-> id]

\* The auditRequest ProxyJSONRPC builds.
AuditRequestOf(call) ==
    [Timestamp |-> call.startTime,
     Method |-> call.method,
     RequestID |-> call.requestID,
     IPAddress |-> getClientIP(call.r),
     UserAgent |-> HeaderGet(call.r.Header, "User-Agent"),
     Request |-> call.r.body,
     Headers |-> CapturedHeadersJSON(call.r.Header)]

\* A faulty variant of AuditResponseOf: handleError leaves the Error field
\* of the record empty.
AuditResponseOfWithoutError(call, t) ==
    [RequestID |-> call.requestID,
     Timestamp |-> t,
     Response |-> call.responseBody,
     StatusCode |-> call.statusCode,
     ProcessTime |-> (t - call.startTime) \div NanosPerMilli,
     Error |-> NoText]

\* A faulty variant of AuditResponseOf: the requestID is read from a field of the
\* gateway that every call overwrites when it starts, so the record carries
\* the requestID of the call that started last.
AuditResponseOfSharedRequestID(call, t) ==
    [RequestID |-> LET started == {d \in CallIds : calls[d].pc # "idle"}
                       last == CHOOSE d \in started :
                                  \A e \in started : calls[e].startTime <= calls[d].startTime
                   IN calls[last].requestID,
     Timestamp |-> t,
     Response |-> call.responseBody,
     StatusCode |-> call.statusCode,
     ProcessTime |-> (t - call.startTime) \div NanosPerMilli,
     Error |-> IF call.path = "handleError" THEN call.errorMsg ELSE NoText]

\* The auditResponse forwardRequest / handleError builds at clock reading t.
AuditResponseOf(call, t) ==
    [RequestID |-> call.requestID,
     Timestamp |-> t,
     Response |-> call.responseBody,
     StatusCode |-> call.statusCode,
     ProcessTime |-> (t - call.startTime) \div NanosPerMilli,
     Error |-> IF call.path = "handleError" THEN call.errorMsg ELSE NoText]

\* A faulty variant of EnterHandleError: the caller is to get the bare status
\* with no body.
EnterHandleErrorBare(call, errorMsg, statusCode) ==
    [call EXCEPT !.pc = "handleError", !.path = "handleError",
                 !.errorMsg = errorMsg, !.statusCode = statusCode,
                 !.responseBody = NoText]

\* Entering handleError(w, errorMsg, requestID, startTime, statusCode).
EnterHandleError(call, errorMsg, statusCode) ==
    [call EXCEPT !.pc = "handleError", !.path = "handleError",
                 !.errorMsg = errorMsg, !.statusCode = statusCode,
                 !.responseBody = ErrorEnvelope(errorMsg)]

\* A faulty variant of AfterCapture: the target check is missing, so the
\* unconfigured gateway goes on to forwardRequest.
AfterCaptureWithoutTargetCheck(call) ==
    IF NewRequestFails(targetURL)
    THEN EnterHandleError(call, <<"Failed to create forward request">>, StatusInternalServerError)
    ELSE [call EXCEPT !.pc = "forward"]

\* ProxyJSONRPC after the request is captured: the target check, and
\* forwardRequest up to httpClient.Do.
AfterCapture(call) ==
    IF targetURL = NoTarget
    THEN EnterHandleError(call, <<"No target URL configured">>, StatusServiceUnavailable)
    ELSE IF NewRequestFails(targetURL)
    THEN EnterHandleError(call, <<"Failed to create forward request">>, StatusInternalServerError)
    ELSE [call EXCEPT !.pc = "forward"]

\* A faulty variant of ForwardedRequest: the correlation ID sent upstream is
\* generated anew when the request is forwarded.
ForwardedRequestWithFreshID(call) ==
    [Method |-> "POST", URL |-> targetURL, body |-> call.r.body,
     Header |-> ("X-Forwarded-For" :> <<getClientIP(call.r)>>) @@ call.r.Header,
     XRequestID |-> generateRequestID(now + 1),
     XGateway |-> "golf-audit-gateway"]

\* The request forwardRequest hands to httpClient.Do.
ForwardedRequest(call) ==
    [Method |-> "POST", URL |-> targetURL, body |-> call.r.body,
     Header |-> ("X-Forwarded-For" :> <<getClientIP(call.r)>>) @@ call.r.Header,
     XRequestID |-> call.requestID,
     XGateway |-> "golf-audit-gateway"]

\* http.Header.Add(key, value): the value appended to the key's values.
HeaderAdd(h, key, value) ==
    IF key \in DOMAIN h THEN [h EXCEPT ![key] = Append(@, value)]
    ELSE h @@ (key :> <<value>>)

\* The inner loop of forwardRequest's header copy: every value of one key.
RECURSIVE AddValues(_, _, _)
AddValues(h, key, values) ==
    IF values = <<>> THEN h
    ELSE AddValues(HeaderAdd(h, key, Head(values)), key, Tail(values))

\* The outer loop: every key of resp.Header (Go ranges over them in no
\* particular order; the keys are distinct, so the order does not matter).
RECURSIVE CopyHeaders(_, _, _)
CopyHeaders(h, from, keys) ==
    IF keys = {} THEN h
    ELSE LET key == CHOOSE k \in keys : TRUE
         IN CopyHeaders(AddValues(h, key, from[key]), from, keys \ {key})

\* A faulty variant of WriteResponse: the handler returns without writing anything.
WriteResponseSkipped(call) == [call EXCEPT !.pc = "done"]

\* A faulty variant of WriteResponse: the caller is sent the body as it is
\* stored, with the event-stream wrapper removed.
WriteResponseNormalized(call) ==
    [call EXCEPT
        !.pc = "done",
        !.trace = Append(@, Did("w.Write", TRUE, 0)),
        !.w = [written |-> TRUE,
               status |-> call.statusCode,
               header |-> IF call.path = "handleError"
                          THEN ("Content-Type" :> <<<<"application/json">>>>)
                          ELSE CopyHeaders(<<>>, call.up.Header, DOMAIN call.up.Header),
               body |-> unwrapSSEResponse(call.responseBody)]]

\* A faulty variant of WriteResponse: w.WriteHeader is left out, so w.Write sends
\* the default status line.
WriteResponseDefaultStatus(call) ==
    [call EXCEPT
        !.pc = "done",
        !.trace = Append(@, Did("w.Write", TRUE, 0)),
        !.w = [written |-> TRUE,
               status |-> StatusOK,
               header |-> IF call.path = "handleError"
                          THEN ("Content-Type" :> <<<<"application/json">>>>)
                          ELSE CopyHeaders(<<>>, call.up.Header, DOMAIN call.up.Header),
               body |-> call.responseBody]]

\* The final writes to the ResponseWriter: headers, status line, body.
WriteResponse(call) ==
    [call EXCEPT
        !.pc = "done",
        !.trace = Append(@, Did("w.Write", TRUE, 0)),
        !.w = [written |-> TRUE,
               status |-> call.statusCode,
               header |-> IF call.path = "handleError"
                          THEN ("Content-Type" :> <<<<"application/json">>>>)
                          ELSE CopyHeaders(<<>>, call.up.Header, DOMAIN call.up.Header),
               body |-> call.responseBody]]

\* A faulty variant of AfterInsertResponse: the caller is answered right after the
\* store write, before the sink is written.
AfterInsertResponseReplyingFirst(call) == WriteResponse(call)

\* After db.InsertAuditResponse: the sink when one is configured, else the
\* reply.
AfterInsertResponse(call) ==
    IF tinybirdDB THEN [call EXCEPT !.pc = "tinybirdResponse"] ELSE WriteResponse(call)

\* A faulty variant of ProxyReadBody: the target check is made before the request is
\* captured, so the unconfigured gateway goes to handleError at once.
ProxyReadBodyTargetFirst(c) ==
    /\ calls[c].pc = "idle"
    /\ \A d \in 1..(c - 1) : calls[d].pc # "idle"
    /\ \E r \in Requests, t \in now..MaxTime :
        /\ now' = t
        /\ calls' = [calls EXCEPT ![c] =
              IF r.bodyErr
              THEN [@ EXCEPT !.pc = "done", !.r = r, !.startTime = t,
                             !.requestID = generateRequestID(t),
                             !.w = HttpError(<<"Failed to read request body">>, StatusBadRequest)]
              ELSE IF targetURL = NoTarget
              THEN EnterHandleError([@ EXCEPT !.r = r, !.startTime = t,
                                              !.requestID = generateRequestID(t)],
                                    <<"No target URL configured">>, StatusServiceUnavailable)
              ELSE [@ EXCEPT !.pc = "insertRequest", !.r = r, !.startTime = t,
                             !.requestID = generateRequestID(t),
                             !.method = IF ParsedMethod(r.body) # ""
                                        THEN ParsedMethod(r.body) ELSE "unknown"]]
    /\ UNCHANGED <<targetURL, tinybirdDB, audit_requests, audit_responses,
                   tinybird, upstream, ret>>

\* A faulty variant of ProxyReadBody: the request is captured before the body read is
\* checked, so a call whose read failed goes on to the store.
ProxyReadBodyCaptureFirst(c) ==
    /\ calls[c].pc = "idle"
    /\ \A d \in 1..(c - 1) : calls[d].pc # "idle"
    /\ \E r \in Requests, t \in now..MaxTime :
        /\ now' = t
        /\ calls' = [calls EXCEPT ![c] =
              [@ EXCEPT !.pc = "insertRequest", !.r = r, !.startTime = t,
                        !.requestID = generateRequestID(t),
                        !.method = IF ParsedMethod(r.body) # ""
                                   THEN ParsedMethod(r.body) ELSE "unknown"]]
    /\ UNCHANGED <<targetURL, tinybirdDB, audit_requests, audit_responses,
                   tinybird, upstream, ret>>

\* ProxyJSONRPC, lines 44-83: the clock, the request ID, the body read and
\* the method.
ProxyReadBody(c) ==
    /\ calls[c].pc = "idle"
    /\ \A d \in 1..(c - 1) : calls[d].pc # "idle"
    /\ \E r \in Requests, t \in now..MaxTime :
        /\ now' = t
        /\ calls' = [calls EXCEPT ![c] =
              IF r.bodyErr
              THEN [@ EXCEPT !.pc = "done", !.r = r, !.startTime = t,
                             !.requestID = generateRequestID(t),
                             !.w = HttpError(<<"Failed to read request body">>, StatusBadRequest)]
              ELSE [@ EXCEPT !.pc = "insertRequest", !.r = r, !.startTime = t,
                             !.requestID = generateRequestID(t),
                             !.method = IF ParsedMethod(r.body) # ""
                                        THEN ParsedMethod(r.body) ELSE "unknown"]]
    /\ UNCHANGED <<targetURL, tinybirdDB, audit_requests, audit_responses,
                   tinybird, upstream, ret>>

\* A faulty variant of ProxyInsertAuditRequest: a failed insert ends the call with a
\* 500 instead of being logged.
ProxyInsertAuditRequestAborting(c) ==
    /\ calls[c].pc = "insertRequest"
    /\ \E io \in BOOLEAN :
        LET res == InsertAuditRequest(audit_requests, AuditRequestOf(calls[c]), io)
            call == [calls[c] EXCEPT
                        !.trace = Append(@, Did("db.InsertAuditRequest", res.err = NoError, res.id))]
        IN /\ audit_requests' = res.rows
           /\ calls' = [calls EXCEPT ![c] =
                          IF res.err # NoError
                          THEN [call EXCEPT !.pc = "done",
                                   !.w = HttpError(<<"Failed to store request">>,
                                                   StatusInternalServerError)]
                          ELSE IF tinybirdDB THEN [call EXCEPT !.pc = "tinybirdRequest"]
                          ELSE AfterCapture(call)]
    /\ UNCHANGED <<targetURL, tinybirdDB, audit_responses, tinybird, upstream, now, ret>>

\* ProxyJSONRPC, lines 85-89: g.db.InsertAuditRequest.
ProxyInsertAuditRequest(c) ==
    /\ calls[c].pc = "insertRequest"
    /\ \E io \in BOOLEAN :
        LET res == InsertAuditRequest(audit_requests, AuditRequestOf(calls[c]), io)
            call == [calls[c] EXCEPT
                        !.trace = Append(@, Did("db.InsertAuditRequest", res.err = NoError, res.id))]
        IN /\ audit_requests' = res.rows
           /\ calls' = [calls EXCEPT ![c] =
                          IF tinybirdDB THEN [call EXCEPT !.pc = "tinybirdRequest"]
                          ELSE AfterCapture(call)]
    /\ UNCHANGED <<targetURL, tinybirdDB, audit_responses, tinybird, upstream, now, ret>>

\* ProxyJSONRPC, lines 91-96: g.tinybirdDB.InsertAuditRequest.
ProxyTinybirdRequest(c) ==
    /\ calls[c].pc = "tinybirdRequest"
    /\ \E answer \in PipelineAnswers :
        /\ tinybird' = tinybird (+) SetToBag({
                [event |-> TinybirdRequestEvent(AuditRequestOf(calls[c]), now),
                 err |-> sendEvent(answer)]})
        /\ calls' = [calls EXCEPT ![c] =
              AfterCapture([@ EXCEPT !.trace = Append(@,
                  Did("tinybird.InsertAuditRequest", sendEvent(answer) = NoError, 0))])]
    /\ UNCHANGED <<targetURL, tinybirdDB, audit_requests, audit_responses, upstream, now, ret>>

\* forwardRequest, lines 127-140: httpClient.Do and the read of the body.
ForwardDo(c) ==
    /\ calls[c].pc = "forward"
    /\ upstream' = upstream (+) SetToBag({ForwardedRequest(calls[c])})
    /\ \E o \in UpstreamOutcomes :
        LET call == [calls[c] EXCEPT
                        !.up = o,
                        !.trace = Append(@, Did("httpClient.Do", o.kind # "transport", 0))]
        IN calls' = [calls EXCEPT ![c] =
              CASE o.kind = "transport" ->
                     EnterHandleError(call, <<"Failed to forward request: ">> \o o.err,
                                      StatusBadGateway)
                [] o.kind = "readfail" ->
                     EnterHandleError(call, <<"Failed to read response">>,
                                      StatusInternalServerError)
                [] OTHER ->
                     [call EXCEPT !.pc = "insertResponse", !.path = "forward",
                                  !.responseBody = o.body, !.statusCode = o.StatusCode]]
    /\ UNCHANGED <<targetURL, tinybirdDB, audit_requests, audit_responses, tinybird, now, ret>>

\* g.db.InsertAuditResponse of the auditResponse built at clock reading t.
StoreResponse(c, t, io) ==
    LET res == InsertAuditResponse(audit_responses, AuditResponseOf(calls[c], t), io)
        call == [calls[c] EXCEPT
                    !.respTime = t,
                    !.trace = Append(@, Did("db.InsertAuditResponse", res.err = NoError, res.id))]
    IN /\ now' = t
       /\ audit_responses' = res.rows
       /\ calls' = [calls EXCEPT ![c] = AfterInsertResponse(call)]

\* forwardRequest, lines 142-153.
ForwardInsertAuditResponse(c) ==
    /\ calls[c].pc = "insertResponse"
    /\ \E t \in now..MaxTime, io \in BOOLEAN : StoreResponse(c, t, io)
    /\ UNCHANGED <<targetURL, tinybirdDB, audit_requests, tinybird, upstream, ret>>

\* A faulty variant of HandleErrorInsertAuditResponse: the error path answers the
\* caller without recording the outcome.
HandleErrorWithoutAudit(c) ==
    /\ calls[c].pc = "handleError"
    /\ calls' = [calls EXCEPT ![c] = WriteResponse(@)]
    /\ UNCHANGED <<targetURL, tinybirdDB, audit_requests, audit_responses, tinybird,
                   upstream, now, ret>>

\* handleError, lines 208-233.
HandleErrorInsertAuditResponse(c) ==
    /\ calls[c].pc = "handleError"
    /\ \E t \in now..MaxTime, io \in BOOLEAN : StoreResponse(c, t, io)
    /\ UNCHANGED <<targetURL, tinybirdDB, audit_requests, tinybird, upstream, ret>>

\* A faulty variant of TinybirdResponse: an error of the sink is returned to the
\* caller as a 500.
TinybirdResponseFailing(c) ==
    /\ calls[c].pc = "tinybirdResponse"
    /\ \E answer \in PipelineAnswers :
        /\ tinybird' = tinybird (+) SetToBag({
                [event |-> TinybirdResponseEvent(
                               AuditResponseOf(calls[c], calls[c].respTime), now),
                 err |-> sendEvent(answer)]})
        /\ calls' = [calls EXCEPT ![c] =
              IF sendEvent(answer) # NoError
              THEN [@ EXCEPT !.pc = "done",
                       !.trace = Append(@, Did("tinybird.InsertAuditResponse", FALSE, 0)),
                       !.w = HttpError(<<"Failed to log response">>,
                                       StatusInternalServerError)]
              ELSE WriteResponse([@ EXCEPT !.trace = Append(@,
                       Did("tinybird.InsertAuditResponse", TRUE, 0))])]
    /\ UNCHANGED <<targetURL, tinybirdDB, audit_requests, audit_responses, upstream, now, ret>>

\* forwardRequest, lines 155-171 / handleError, lines 235-244:
\* g.tinybirdDB.InsertAuditResponse, then the reply.
TinybirdResponse(c) ==
    /\ calls[c].pc = "tinybirdResponse"
    /\ \E answer \in PipelineAnswers :
        /\ tinybird' = tinybird (+) SetToBag({
                [event |-> TinybirdResponseEvent(
                               AuditResponseOf(calls[c], calls[c].respTime), now),
                 err |-> sendEvent(answer)]})
        /\ calls' = [calls EXCEPT ![c] =
              WriteResponse([@ EXCEPT !.trace = Append(@,
                  Did("tinybird.InsertAuditResponse", sendEvent(answer) = NoError, 0))])]
    /\ UNCHANGED <<targetURL, tinybirdDB, audit_requests, audit_responses, upstream, now, ret>>

NoReturn == [op |-> "none", err |-> NoError, storeErr |-> NoError, arg |-> NULLID]

Init ==
    /\ targetURL \in TargetURLs
    /\ tinybirdDB \in BOOLEAN
    /\ audit_requests = <<>>
    /\ audit_responses = <<>>
    /\ tinybird = EmptyBag
    /\ upstream = EmptyBag
    /\ now = 0
    /\ calls = [c \in CallIds |-> IdleCall]
    /\ ret = NoReturn

Next ==
    \E c \in CallIds :
        \/ ProxyReadBody(c)
        \/ ProxyInsertAuditRequest(c)
        \/ ProxyTinybirdRequest(c)
        \/ ForwardDo(c)
        \/ ForwardInsertAuditResponse(c)
        \/ HandleErrorInsertAuditResponse(c)
        \/ TinybirdResponse(c)

Spec == Init /\ [][Next]_vars


(***************************************************************************)
(* Reading a call's trace.                                                 *)
(***************************************************************************)
Count(c, op) == Cardinality({i \in DOMAIN calls[c].trace : calls[c].trace[i].op = op})

\* The position of the call's first op in its trace, 0 when it made none.
Pos(c, op) ==
    IF Count(c, op) = 0 THEN 0
    ELSE CHOOSE i \in DOMAIN calls[c].trace :
            /\ calls[c].trace[i].op = op
            /\ \A j \in 1..(i - 1) : calls[c].trace[j].op # op

\* Whether the call's op returned without error (FALSE when never made).
Succeeded(c, op) == Count(c, op) > 0 /\ calls[c].trace[Pos(c, op)].ok

\* The call's body was read: it got past line 56 of ProxyJSONRPC.
BodyRead(c) == calls[c].pc # "idle" /\ ~calls[c].r.bodyErr

Done(c) == calls[c].pc = "done"

\* The call is about to issue httpClient.Do, or has issued it.
AtOrPastForward(c) == calls[c].pc = "forward" \/ Count(c, "httpClient.Do") > 0

HasRequestRow(rid) == \E i \in DOMAIN audit_requests : audit_requests[i].request_id = rid

(***************************************************************************)
(* C1 (as stated): whenever a call is about to issue, or has issued, the   *)
(* upstream call, audit_requests holds a row with the call's requestID.    *)
(***************************************************************************)
C1_RowPresentAtForward ==
    \A c \in CallIds : AtOrPastForward(c) => HasRequestRow(calls[c].requestID)

(***************************************************************************)
(* C1 (amended): whenever a call is about to issue, or has issued, the     *)
(* upstream call, its AuditRequest insert was the first thing it did on a  *)
(* collaborator and has returned; and when that insert returned success,   *)
(* audit_requests holds a row with the call's requestID, also after the    *)
(* forward failed.                                                         *)
(***************************************************************************)
C1_CaptureAttemptedBeforeForward ==
    \A c \in CallIds :
        AtOrPastForward(c) =>
            /\ Pos(c, "db.InsertAuditRequest") = 1
            /\ Count(c, "httpClient.Do") > 0 => Pos(c, "httpClient.Do") > 1
            /\ Succeeded(c, "db.InsertAuditRequest") => HasRequestRow(calls[c].requestID)

\* A call whose capture succeeded and whose forward then failed in transport.
C1_Witness ==
    \E c \in CallIds :
        /\ Done(c)
        /\ calls[c].up.kind = "transport"
        /\ Succeeded(c, "db.InsertAuditRequest")
        /\ HasRequestRow(calls[c].requestID)

(***************************************************************************)
(* C2: within one call, every AuditResponse write to the store comes after *)
(* the call's AuditRequest write has been made and has returned; a call    *)
(* that is about to write its AuditResponse has its AuditRequest write     *)
(* behind it.                                                              *)
(***************************************************************************)
C2_RequestWriteBeforeResponseWrite ==
    \A c \in CallIds :
        /\ calls[c].pc \in {"insertResponse", "handleError"} =>
              Count(c, "db.InsertAuditRequest") = 1
        /\ \A i \in DOMAIN calls[c].trace :
              calls[c].trace[i].op = "db.InsertAuditResponse" =>
                  \E j \in 1..(i - 1) : calls[c].trace[j].op = "db.InsertAuditRequest"

\* Two finished calls, one on the success path and one on the transport
\* failure path, each with both writes made.
C2_Witness ==
    \E c, d \in CallIds :
        /\ Done(c) /\ calls[c].up.kind = "ok"
        /\ Done(d) /\ calls[d].up.kind = "transport"
        /\ Pos(c, "db.InsertAuditResponse") > Pos(c, "db.InsertAuditRequest")
        /\ Pos(d, "db.InsertAuditResponse") > Pos(d, "db.InsertAuditRequest")
        /\ Pos(d, "db.InsertAuditRequest") > 0

(***************************************************************************)
(* C3 (as stated): audit_responses never holds two rows with the same      *)
(* requestID.                                                              *)
(***************************************************************************)
C3_AtMostOneResponsePerRequestID ==
    \A i, j \in DOMAIN audit_responses :
        i # j => audit_responses[i].request_id # audit_responses[j].request_id

(***************************************************************************)
(* C4: a call whose body was read never makes more than one AuditRequest   *)
(* insert nor more than one AuditResponse insert, and when it has returned *)
(* it has made exactly one of each.                                        *)
(***************************************************************************)
C4_ExactlyOneInsertEach ==
    \A c \in CallIds :
        /\ Count(c, "db.InsertAuditRequest") <= 1
        /\ Count(c, "db.InsertAuditResponse") <= 1
        /\ (BodyRead(c) /\ Done(c)) =>
              /\ Count(c, "db.InsertAuditRequest") = 1
              /\ Count(c, "db.InsertAuditResponse") = 1

\* A call that returned after http.NewRequest rejected the target URL.
C4_Witness ==
    \E c \in CallIds :
        /\ BodyRead(c) /\ Done(c)
        /\ calls[c].errorMsg = <<"Failed to create forward request">>
        /\ Count(c, "db.InsertAuditRequest") = 1
        /\ Count(c, "db.InsertAuditResponse") = 1


(***************************************************************************)
(* Comparing two calls of one behaviour as two runs of the pipeline.       *)
(***************************************************************************)
\* The same inbound request and the same upstream behaviour.
SameRun(c, d) ==
    /\ BodyRead(c) /\ Done(c)
    /\ BodyRead(d) /\ Done(d)
    /\ calls[c].r = calls[d].r
    /\ calls[c].up = calls[d].up

\* The same Audit Store behaviour: both writes of the two calls returned
\* alike.
SameStore(c, d) ==
    /\ Succeeded(c, "db.InsertAuditRequest") = Succeeded(d, "db.InsertAuditRequest")
    /\ Succeeded(c, "db.InsertAuditResponse") = Succeeded(d, "db.InsertAuditResponse")

\* Every sink write of the call returned ok (or: returned an error).
SinkAlways(c, ok) ==
    /\ Count(c, "tinybird.InsertAuditRequest") = 1
    /\ Count(c, "tinybird.InsertAuditResponse") = 1
    /\ \A i \in DOMAIN calls[c].trace :
          calls[c].trace[i].op \in {"tinybird.InsertAuditRequest",
                                    "tinybird.InsertAuditResponse"}
              => calls[c].trace[i].ok = ok

\* The ids of the rows call c's inserts named op wrote.
RowIdsOf(c, op) ==
    { calls[c].trace[i].id :
      i \in {k \in DOMAIN calls[c].trace :
                calls[c].trace[k].op = op /\ calls[c].trace[k].ok} }

\* The rows call c wrote to the two tables, without the fields that depend
\* on the clock or on the insertion order (id, request_id, timestamps).
RequestRowsOf(c) ==
    { [method |-> audit_requests[i].method,
       ip_address |-> audit_requests[i].ip_address,
       user_agent |-> audit_requests[i].user_agent,
       request |-> audit_requests[i].request,
       headers |-> audit_requests[i].headers] :
      i \in RowIdsOf(c, "db.InsertAuditRequest") }

ResponseRowsOf(c) ==
    { [response |-> audit_responses[i].response,
       status_code |-> audit_responses[i].status_code,
       error |-> audit_responses[i].error] :
      i \in RowIdsOf(c, "db.InsertAuditResponse") }

(***************************************************************************)
(* C7: two calls on the same inbound request, with the same upstream       *)
(* behaviour and the same Audit Store behaviour, give the caller the same  *)
(* status, headers and body and leave the same rows in the Audit Store,    *)
(* whatever the sink answered to either of them.                           *)
(***************************************************************************)
C7_SinkDoesNotInterfere ==
    \A c, d \in CallIds :
        (SameRun(c, d) /\ SameStore(c, d)) =>
            /\ calls[c].w = calls[d].w
            /\ RequestRowsOf(c) = RequestRowsOf(d)
            /\ ResponseRowsOf(c) = ResponseRowsOf(d)

\* Two such calls, every sink write of the one accepted and every sink write
\* of the other refused, both with their rows stored.
C7_Witness ==
    \E c, d \in CallIds :
        /\ SameRun(c, d) /\ SameStore(c, d)
        /\ c # d
        /\ SinkAlways(c, TRUE)
        /\ SinkAlways(d, FALSE)
        /\ calls[c].up.kind = "ok"
        /\ RequestRowsOf(d) # {}
        /\ ResponseRowsOf(d) # {}
        /\ calls[d].w.written

(***************************************************************************)
(* C9: a call whose AuditRequest or AuditResponse write failed is still    *)
(* forwarded (when a valid target is configured), and two calls on the     *)
(* same inbound request with the same upstream behaviour give the caller   *)
(* the same status, headers and body, whatever the store returned to       *)
(* either of them.                                                         *)
(***************************************************************************)
C9_StoreFailureDoesNotDegrade ==
    /\ \A c \in CallIds :
          (BodyRead(c) /\ Done(c) /\ targetURL = GoodTarget) =>
              /\ Count(c, "httpClient.Do") = 1
              /\ BagIn(ForwardedRequest(calls[c]), upstream)
    /\ \A c, d \in CallIds : SameRun(c, d) => calls[c].w = calls[d].w

\* Two calls answered by the upstream alike, both store writes of the one
\* succeeded and both store writes of the other failed.
C9_Witness ==
    \E c, d \in CallIds :
        /\ SameRun(c, d)
        /\ calls[c].up.kind = "ok"
        /\ Succeeded(c, "db.InsertAuditRequest") /\ Succeeded(c, "db.InsertAuditResponse")
        /\ Count(d, "db.InsertAuditRequest") = 1 /\ ~Succeeded(d, "db.InsertAuditRequest")
        /\ Count(d, "db.InsertAuditResponse") = 1 /\ ~Succeeded(d, "db.InsertAuditResponse")
        /\ calls[d].w.status = StatusOK

(***************************************************************************)
(* C10: a call whose body read fails answers 400 and returns in that same  *)
(* step, having called neither the store, the sink nor the upstream; the   *)
(* step leaves both tables, the sink and the upstream as they were.        *)
(***************************************************************************)
C10_BadInputLeavesNoTrace ==
    /\ [](\A c \in CallIds :
            (calls[c].pc # "idle" /\ calls[c].r.bodyErr) =>
                /\ Done(c)
                /\ calls[c].w.status = StatusBadRequest
                /\ calls[c].trace = <<>>)
    /\ [][\A c \in CallIds :
            (calls[c].pc = "idle" /\ calls'[c].pc # "idle" /\ calls'[c].r.bodyErr) =>
                UNCHANGED <<audit_requests, audit_responses, tinybird, upstream>>]_vars

\* A call refused with 400 beside a call that has stored its rows.
C10_Witness ==
    \E c, d \in CallIds :
        /\ Done(c) /\ calls[c].r.bodyErr
        /\ calls[c].w.status = StatusBadRequest
        /\ Done(d) /\ BodyRead(d)
        /\ Len(audit_requests) = 1 /\ Len(audit_responses) = 1


(***************************************************************************)
(* The store on its own: Database.InsertAuditRequest and                   *)
(* Database.InsertAuditResponse called in any order with any records, as   *)
(* concurrent callers make them (SQLite serialises the statements).        *)
(***************************************************************************)
StoreRequestIDs == {generateRequestID(t) : t \in Times}

StoreAuditRequests ==
    { [Timestamp |-> t,
       Method |-> IF ParsedMethod(b) # "" THEN ParsedMethod(b) ELSE "unknown",
       RequestID |-> rid,
       IPAddress |-> <<"10.0.0.1">>,
       UserAgent |-> <<"curl/8">>,
       Request |-> b,
       Headers |-> Nil] :
      t \in Times, rid \in StoreRequestIDs, b \in {<<PING>>, <<JUNK>>} }

StoreAuditResponses ==
    { [RequestID |-> rid, Timestamp |-> t, Response |-> PlainBody,
       StatusCode |-> StatusOK, ProcessTime |-> 0, Error |-> NoText] :
      t \in Times, rid \in StoreRequestIDs }
    \cup
    { [RequestID |-> rid, Timestamp |-> t,
       Response |-> ErrorEnvelope(<<"Failed to read response">>),
       StatusCode |-> StatusInternalServerError, ProcessTime |-> 0,
       Error |-> <<"Failed to read response">>] :
      t \in Times, rid \in StoreRequestIDs }

Returned(op, err, storeErr, arg) ==
    [op |-> op, err |-> err, storeErr |-> storeErr, arg |-> arg]

\* A caller's Database.InsertAuditRequest(req).
StoreInsertAuditRequest ==
    /\ \E req \in StoreAuditRequests, io \in BOOLEAN :
        LET res == InsertAuditRequest(audit_requests, req, io)
        IN /\ Len(res.rows) <= MaxRows
           /\ audit_requests' = res.rows
           /\ ret' = Returned("Database.InsertAuditRequest", res.err, res.err, req.RequestID)
    /\ UNCHANGED <<targetURL, tinybirdDB, audit_responses, tinybird, upstream, now, calls>>

\* A caller's Database.InsertAuditResponse(resp).
StoreInsertAuditResponse ==
    /\ \E resp \in StoreAuditResponses, io \in BOOLEAN :
        LET res == InsertAuditResponse(audit_responses, resp, io)
        IN /\ Len(res.rows) <= MaxRows
           /\ audit_responses' = res.rows
           /\ ret' = Returned("Database.InsertAuditResponse", res.err, res.err, resp.RequestID)
    /\ UNCHANGED <<targetURL, tinybirdDB, audit_requests, tinybird, upstream, now, calls>>

StoreNext == StoreInsertAuditRequest \/ StoreInsertAuditResponse

\* The store right after New: both tables empty. No gateway is running.
StoreInit == Init /\ targetURL = GoodTarget /\ tinybirdDB

StoreSpec == StoreInit /\ [][StoreNext]_vars

\* The limit the listing endpoints accept at most.
MaxLimit == 1000

RequestIDsOf(rows) == {rows[i].request_id : i \in DOMAIN rows}

(***************************************************************************)
(* C5: in every store state, GetOrphanedRequests with a limit covering all *)
(* rows returns exactly the audit_requests rows whose requestID is in no   *)
(* audit_responses row: each of them once, and nothing else.               *)
(***************************************************************************)
C5_OrphansAreTheAntiJoin ==
    LET res == GetOrphanedRequests(audit_requests, audit_responses, MaxLimit, 0)
        orphans == {i \in DOMAIN audit_requests :
                       audit_requests[i].request_id \notin RequestIDsOf(audit_responses)}
    IN /\ Len(res) = Cardinality(orphans)
       /\ \A i \in orphans :
             \E k \in DOMAIN res : res[k] = ScanAuditRequest(audit_requests[i])
       /\ \A k \in DOMAIN res :
             \E i \in orphans : res[k] = ScanAuditRequest(audit_requests[i])
       /\ \A k, l \in DOMAIN res : k # l => res[k].RequestID # res[l].RequestID

\* Two requests, of which one has a response, and a response that matches no
\* request: one orphan.
C5_Witness ==
    /\ Len(audit_requests) = 2
    /\ Len(audit_responses) = 2
    /\ \E p \in DOMAIN audit_responses :
          audit_responses[p].request_id \in RequestIDsOf(audit_requests)
    /\ Len(GetOrphanedRequests(audit_requests, audit_responses, MaxLimit, 0)) = 1


(***************************************************************************)
(* DualDatabase: internal/database/database.go, lines 656-752. Each        *)
(* operation writes to the store and then, if that went well, to the sink. *)
(***************************************************************************)
\* The records DualDatabase's callers pass: stamped with the current time.
DualAuditRequests == {req \in StoreAuditRequests : req.Timestamp = now}

DualAuditResponses == {resp \in StoreAuditResponses : resp.Timestamp = now}

DualAuditLogs ==
    { [Timestamp |-> req.Timestamp, Method |-> req.Method, RequestID |-> req.RequestID,
       IPAddress |-> req.IPAddress, UserAgent |-> req.UserAgent,
       Request |-> req.Request, Headers |-> req.Headers,
       Response |-> o.Response, StatusCode |-> o.StatusCode,
       ProcessTime |-> 0, Error |-> NoText] :
      req \in DualAuditRequests,
      o \in { [Response |-> Nil, StatusCode |-> 0],
              [Response |-> PlainBody, StatusCode |-> StatusOK] } }

Posted(event, answer) == SetToBag({[event |-> event, err |-> sendEvent(answer)]})

\* TinybirdDatabase.InsertAuditLog: the request event, then, if that was
\* accepted and the log carries an outcome, the response event. Returns the
\* error and the events posted.
TinybirdInsertAuditLog(log, t, a1, a2) ==
    LET reqEvent == TinybirdRequestEvent(
                        [Timestamp |-> log.Timestamp, Method |-> log.Method,
                         RequestID |-> log.RequestID, IPAddress |-> log.IPAddress,
                         UserAgent |-> log.UserAgent, Request |-> log.Request,
                         Headers |-> log.Headers], t)
        respEvent == TinybirdResponseEvent(
                        [RequestID |-> log.RequestID, Timestamp |-> log.Timestamp,
                         Response |-> log.Response, StatusCode |-> log.StatusCode,
                         ProcessTime |-> log.ProcessTime, Error |-> log.Error], t)
    IN IF sendEvent(a1) # NoError
       THEN [err |-> sendEvent(a1), posted |-> Posted(reqEvent, a1)]
       ELSE IF log.StatusCode > 0 \/ log.Response # Nil \/ log.Error # NoText
       THEN [err |-> sendEvent(a2), posted |-> Posted(reqEvent, a1) (+) Posted(respEvent, a2)]
       ELSE [err |-> NoError, posted |-> Posted(reqEvent, a1)]

\* A faulty variant of DualInsertAuditRequest: the sink's error is returned to the
\* caller instead of being logged.
DualInsertAuditRequestReturningSinkError ==
    /\ Len(audit_requests) < MaxRows
    /\ \E req \in DualAuditRequests, io \in BOOLEAN, answer \in TinybirdAnswers :
        LET res == InsertAuditRequest(audit_requests, req, io)
        IN IF res.err # NoError
           THEN /\ ret' = Returned("DualDatabase.InsertAuditRequest", res.err, res.err,
                                   req.RequestID)
                /\ UNCHANGED <<audit_requests, tinybird>>
           ELSE /\ audit_requests' = res.rows
                /\ tinybird' = tinybird (+) Posted(TinybirdRequestEvent(req, now), answer)
                /\ ret' = Returned("DualDatabase.InsertAuditRequest", sendEvent(answer),
                                   NoError, req.RequestID)
    /\ UNCHANGED <<targetURL, tinybirdDB, audit_responses, upstream, now, calls>>

\* DualDatabase.InsertAuditRequest, lines 680-692.
DualInsertAuditRequest ==
    /\ Len(audit_requests) < MaxRows
    /\ \E req \in DualAuditRequests, io \in BOOLEAN, answer \in TinybirdAnswers :
        LET res == InsertAuditRequest(audit_requests, req, io)
        IN IF res.err # NoError
           THEN /\ ret' = Returned("DualDatabase.InsertAuditRequest", res.err, res.err,
                                   req.RequestID)
                /\ UNCHANGED <<audit_requests, tinybird>>
           ELSE /\ audit_requests' = res.rows
                /\ tinybird' = tinybird (+) Posted(TinybirdRequestEvent(req, now), answer)
                /\ ret' = Returned("DualDatabase.InsertAuditRequest", NoError, NoError,
                                   req.RequestID)
    /\ UNCHANGED <<targetURL, tinybirdDB, audit_responses, upstream, now, calls>>

\* A faulty variant of DualInsertAuditResponse: the sink is written whether or not the
\* store write went well.
DualInsertAuditResponseAlwaysSink ==
    /\ Len(audit_responses) < MaxRows
    /\ \E resp \in DualAuditResponses, io \in BOOLEAN, answer \in TinybirdAnswers :
        LET res == InsertAuditResponse(audit_responses, resp, io)
        IN /\ audit_responses' = res.rows
           /\ tinybird' = tinybird (+) Posted(TinybirdResponseEvent(resp, now), answer)
           /\ ret' = Returned("DualDatabase.InsertAuditResponse", res.err, res.err,
                              resp.RequestID)
    /\ UNCHANGED <<targetURL, tinybirdDB, audit_requests, upstream, now, calls>>

\* DualDatabase.InsertAuditResponse, lines 695-707.
DualInsertAuditResponse ==
    /\ Len(audit_responses) < MaxRows
    /\ \E resp \in DualAuditResponses, io \in BOOLEAN, answer \in TinybirdAnswers :
        LET res == InsertAuditResponse(audit_responses, resp, io)
        IN IF res.err # NoError
           THEN /\ ret' = Returned("DualDatabase.InsertAuditResponse", res.err, res.err,
                                   resp.RequestID)
                /\ UNCHANGED <<audit_responses, tinybird>>
           ELSE /\ audit_responses' = res.rows
                /\ tinybird' = tinybird (+) Posted(TinybirdResponseEvent(resp, now), answer)
                /\ ret' = Returned("DualDatabase.InsertAuditResponse", NoError, NoError,
                                   resp.RequestID)
    /\ UNCHANGED <<targetURL, tinybirdDB, audit_requests, upstream, now, calls>>

\* DualDatabase.InsertAuditLog, lines 734-746.
DualInsertAuditLog ==
    /\ Len(audit_requests) < MaxRows
    /\ Len(audit_responses) < MaxRows
    /\ \E log \in DualAuditLogs, ioReq, ioResp \in BOOLEAN, a1, a2 \in TinybirdAnswers :
        LET res == InsertAuditLog(audit_requests, audit_responses, log, ioReq, ioResp)
        IN /\ audit_requests' = res.reqs
           /\ audit_responses' = res.resps
           /\ IF res.err # NoError
              THEN /\ ret' = Returned("DualDatabase.InsertAuditLog", res.err, res.err,
                                      log.RequestID)
                   /\ UNCHANGED tinybird
              ELSE /\ tinybird' = tinybird (+) TinybirdInsertAuditLog(log, now, a1, a2).posted
                   /\ ret' = Returned("DualDatabase.InsertAuditLog", NoError, NoError,
                                      log.RequestID)
    /\ UNCHANGED <<targetURL, tinybirdDB, upstream, now, calls>>

DualNext == DualInsertAuditRequest \/ DualInsertAuditResponse \/ DualInsertAuditLog

DualSpec == StoreInit /\ [][DualNext]_vars

SinkFailedEveryWrite == \A e \in BagToSet(tinybird) : e.err # NoError

(***************************************************************************)
(* C6: a DualDatabase.InsertAuditRequest or InsertAuditResponse whose      *)
(* store write went well returns success and leaves the record as the      *)
(* newest row of its table, whatever the sink answered; in particular when *)
(* the sink has failed every write so far.                                 *)
(***************************************************************************)
C6_SinkFailureNotReturned ==
    /\ [][ /\ (ret'.op = "DualDatabase.InsertAuditRequest" /\ ret'.storeErr = NoError
                  /\ ret' # ret
               => /\ ret'.err = NoError
                  /\ Len(audit_requests') = Len(audit_requests) + 1
                  /\ audit_requests'[Len(audit_requests')].request_id = ret'.arg)
           /\ (ret'.op = "DualDatabase.InsertAuditResponse" /\ ret'.storeErr = NoError
                  /\ ret' # ret
               => /\ ret'.err = NoError
                  /\ Len(audit_responses') = Len(audit_responses) + 1
                  /\ audit_responses'[Len(audit_responses')].request_id = ret'.arg)
           /\ (Len(audit_requests') > Len(audit_requests)
                  \/ Len(audit_responses') > Len(audit_responses)
               => ret'.err = NoError \/ ret'.op = "DualDatabase.InsertAuditLog") ]_vars

\* Both operations have returned success while every one of the sink's
\* writes failed.
C6_Witness ==
    /\ ret.op = "DualDatabase.InsertAuditResponse"
    /\ ret.err = NoError
    /\ Len(audit_requests) >= 1
    /\ Len(audit_responses) >= 1
    /\ audit_responses[Len(audit_responses)].request_id = ret.arg
    /\ BagCardinality(tinybird) >= 2
    /\ SinkFailedEveryWrite

(***************************************************************************)
(* C8: a DualDatabase operation whose store write failed returns the       *)
(* store's error and posts nothing to the sink.                            *)
(***************************************************************************)
C8_StoreFailureSkipsSink ==
    [][ ret'.storeErr # NoError
        => /\ ret'.err = ret'.storeErr
           /\ tinybird' = tinybird ]_vars

\* An InsertAuditLog whose response row failed after its request row went
\* in, in a store the sink has been written for before.
C8_Witness ==
    /\ ret.op = "DualDatabase.InsertAuditLog"
    /\ ret.err = "failed to insert audit response"
    /\ \E i \in DOMAIN audit_requests : audit_requests[i].request_id = ret.arg
    /\ \A e \in BagToSet(tinybird) : e.event.request_id # ret.arg
    /\ tinybird # EmptyBag

(***************************************************************************)
(* The outcomes of the pipeline's paths.                                   *)
(***************************************************************************)
\* The method ProxyJSONRPC records for a body.
MethodOf(body) == IF ParsedMethod(body) # "" THEN ParsedMethod(body) ELSE "unknown"

RequestRowsWithID(rid) == {i \in DOMAIN audit_requests : audit_requests[i].request_id = rid}

ResponseRowsWithID(rid) == {i \in DOMAIN audit_responses : audit_responses[i].request_id = rid}

\* What the caller of a finished call c on the no-target path has got.
NoTargetReply(c) ==
    /\ Count(c, "httpClient.Do") = 0
    /\ upstream = EmptyBag
    /\ calls[c].w.written
    /\ calls[c].w.status = StatusServiceUnavailable
    /\ calls[c].w.body = ErrorEnvelope(<<"No target URL configured">>)

(***************************************************************************)
(* C11 (as stated): with no target configured, a finished call whose body  *)
(* was read made no upstream call, answered 503 with the internal-error    *)
(* envelope, and the store holds exactly one audit_requests row with its   *)
(* requestID (method from the body) and exactly one audit_responses row    *)
(* with its requestID, of status 503.                                      *)
(***************************************************************************)
C11_NoTargetOneRowEach ==
    targetURL = NoTarget =>
        \A c \in CallIds :
            (BodyRead(c) /\ Done(c)) =>
                /\ NoTargetReply(c)
                /\ Cardinality(RequestRowsWithID(calls[c].requestID)) = 1
                /\ \A i \in RequestRowsWithID(calls[c].requestID) :
                      audit_requests[i].method = MethodOf(calls[c].r.body)
                /\ Cardinality(ResponseRowsWithID(calls[c].requestID)) = 1
                /\ \A i \in ResponseRowsWithID(calls[c].requestID) :
                      audit_responses[i].status_code = StatusServiceUnavailable

(***************************************************************************)
(* C11 (amended): with no target configured, a finished call whose body    *)
(* was read made no upstream call, answered 503 with the internal-error    *)
(* envelope, and made one insert of each kind; each insert that returned   *)
(* success left one row with the call's requestID: the request row with    *)
(* the method from the body, the response row with status 503 and the      *)
(* envelope's error text. An insert that failed left no row.               *)
(***************************************************************************)
C11_NoTargetShortCircuit ==
    targetURL = NoTarget =>
        \A c \in CallIds :
            (BodyRead(c) /\ Done(c)) =>
                /\ NoTargetReply(c)
                /\ Count(c, "db.InsertAuditRequest") = 1
                /\ Count(c, "db.InsertAuditResponse") = 1
                /\ Cardinality(RowIdsOf(c, "db.InsertAuditRequest")) =
                      (IF Succeeded(c, "db.InsertAuditRequest") THEN 1 ELSE 0)
                /\ Cardinality(RowIdsOf(c, "db.InsertAuditResponse")) =
                      (IF Succeeded(c, "db.InsertAuditResponse") THEN 1 ELSE 0)
                /\ \A i \in RowIdsOf(c, "db.InsertAuditRequest") :
                      /\ audit_requests[i].request_id = calls[c].requestID
                      /\ audit_requests[i].method = MethodOf(calls[c].r.body)
                /\ \A i \in RowIdsOf(c, "db.InsertAuditResponse") :
                      /\ audit_responses[i].request_id = calls[c].requestID
                      /\ audit_responses[i].status_code = StatusServiceUnavailable
                      /\ audit_responses[i].error = <<"No target URL configured">>

\* A "ping" call answered 503 by the unconfigured gateway, both rows stored.
C11_Witness ==
    /\ targetURL = NoTarget
    /\ \E c \in CallIds :
          /\ BodyRead(c) /\ Done(c)
          /\ calls[c].w.status = StatusServiceUnavailable
          /\ \E i \in RowIdsOf(c, "db.InsertAuditRequest") : audit_requests[i].method = "ping"
          /\ \E i \in RowIdsOf(c, "db.InsertAuditResponse") :
                audit_responses[i].status_code = StatusServiceUnavailable

\* strings.Contains, on fragments.
Contains(s, sub) == \E i \in 1..(Len(s) - Len(sub) + 1) : SubSeq(s, i, i + Len(sub) - 1) = sub

\* The audit_responses rows call c wrote.
ResponsesWrittenBy(c) == {audit_responses[i] : i \in RowIdsOf(c, "db.InsertAuditResponse")}

(***************************************************************************)
(* C12: every AuditResponse a call stored carries the status of the call's *)
(* path: 503 and a non-empty error when no target is configured, 500 and a *)
(* non-empty error when the forward request cannot be built, 502 and an    *)
(* error containing the transport error's text on a transport failure, 500 *)
(* and a non-empty error when the upstream body cannot be read, and the    *)
(* upstream's status with an empty error on the success path.              *)
(***************************************************************************)
C12_FailureClassRecorded ==
    \A c \in CallIds :
        \A row \in ResponsesWrittenBy(c) :
            /\ (targetURL = NoTarget) =>
                  row.status_code = StatusServiceUnavailable /\ row.error # NoText
            /\ NewRequestFails(targetURL) =>
                  row.status_code = StatusInternalServerError /\ row.error # NoText
            /\ calls[c].up.kind = "transport" =>
                  /\ row.status_code = StatusBadGateway
                  /\ calls[c].up.err # NoText
                  /\ Contains(row.error, calls[c].up.err)
            /\ calls[c].up.kind = "readfail" =>
                  row.status_code = StatusInternalServerError /\ row.error # NoText
            /\ calls[c].up.kind = "ok" =>
                  row.status_code = calls[c].up.StatusCode /\ row.error = NoText

\* One call stored its transport failure and another its success.
C12_Witness ==
    \E c, d \in CallIds :
        /\ calls[c].up.kind = "transport"
        /\ \E row \in ResponsesWrittenBy(c) : row.status_code = StatusBadGateway
        /\ calls[d].up.kind = "ok"
        /\ \E row \in ResponsesWrittenBy(d) : row.error = NoText

\* Whether a body is the JSON-RPC internal-error envelope handleError
\* marshals, for some data text.
IsErrorEnvelope(b) == Len(b) >= 4 /\ b = ErrorEnvelope(SubSeq(b, 3, Len(b) - 2))

(***************************************************************************)
(* C13 (as stated): a finished call whose forward failed in transport has  *)
(* answered 502 with a body that is no JSON-RPC error envelope, and a      *)
(* caller gets the envelope only from a gateway with no target configured. *)
(***************************************************************************)
C13_TransportFailureIsBare502 ==
    \A c \in CallIds :
        Done(c) =>
            /\ calls[c].up.kind = "transport" =>
                  calls[c].w.status = StatusBadGateway /\ ~IsErrorEnvelope(calls[c].w.body)
            /\ IsErrorEnvelope(calls[c].w.body) => targetURL = NoTarget

(***************************************************************************)
(* C13 (amended): a finished call whose forward failed in transport has    *)
(* answered 502 with Content-Type application/json and the JSON-RPC        *)
(* internal-error envelope whose data is "Failed to forward request: "     *)
(* followed by the transport error; every call that ended in handleError   *)
(* (no target, request construction failure, transport failure, upstream   *)
(* read failure) got the envelope, and no call on the success path did     *)
(* unless the upstream itself sent one.                                    *)
(***************************************************************************)
C13_TransportFailureGetsEnvelope ==
    \A c \in CallIds :
        (BodyRead(c) /\ Done(c)) =>
            /\ calls[c].up.kind = "transport" =>
                  /\ calls[c].w.status = StatusBadGateway
                  /\ calls[c].w.header = ("Content-Type" :> <<<<"application/json">>>>)
                  /\ calls[c].w.body =
                        ErrorEnvelope(<<"Failed to forward request: ">> \o calls[c].up.err)
            /\ (targetURL # GoodTarget \/ calls[c].up.kind \in {"transport", "readfail"})
                  => IsErrorEnvelope(calls[c].w.body)
            /\ calls[c].up.kind = "ok" => calls[c].w.body = calls[c].up.body

\* A call answered 502 with the envelope after a transport failure.
C13_Witness ==
    \E c \in CallIds :
        /\ Done(c)
        /\ calls[c].up.kind = "transport"
        /\ calls[c].w.status = StatusBadGateway
        /\ IsErrorEnvelope(calls[c].w.body)

(***************************************************************************)
(* C14: a finished call on the success path has given the caller the       *)
(* upstream's status code, every value of every upstream header in the     *)
(* upstream's order, and the upstream's body as it came, event-stream      *)
(* wrapper included.                                                       *)
(***************************************************************************)
C14_UpstreamReplyUnmodified ==
    \A c \in CallIds :
        (Done(c) /\ calls[c].up.kind = "ok") =>
            /\ calls[c].w.written
            /\ calls[c].w.status = calls[c].up.StatusCode
            /\ DOMAIN calls[c].w.header = DOMAIN calls[c].up.Header
            /\ \A k \in DOMAIN calls[c].up.Header :
                  calls[c].w.header[k] = calls[c].up.Header[k]
            /\ calls[c].w.body = calls[c].up.body

\* An event-stream reply passed through as it came while the store holds a
\* row for it.
C14_Witness ==
    \E c \in CallIds :
        /\ Done(c)
        /\ calls[c].up.kind = "ok"
        /\ calls[c].up.body = SSEBody
        /\ calls[c].w.body = SSEBody
        /\ unwrapSSEResponse(SSEBody) # SSEBody
        /\ Len(calls[c].w.header["Set-Cookie"]) = 2
        /\ RowIdsOf(c, "db.InsertAuditResponse") # {}

(***************************************************************************)
(* C15 (as stated): for a finished call on the success path, the Response  *)
(* that GetAuditResponses returns for the row the call wrote is the        *)
(* upstream body with the event-stream wrapper removed; for a body without *)
(* the wrapper, the upstream body itself.                                  *)
(***************************************************************************)
C15_StoredResponseIsNormalizedBody ==
    LET listed == GetAuditResponses(audit_responses, MaxLimit, 0)
    IN \A c \in CallIds :
          (Done(c) /\ calls[c].up.kind = "ok") =>
              \A k \in DOMAIN listed :
                  listed[k].ID \in RowIdsOf(c, "db.InsertAuditResponse") =>
                      /\ listed[k].Response = unwrapSSEResponse(calls[c].up.body)
                      /\ ~HasPrefix(calls[c].up.body, <<EVENT>>)
                            => listed[k].Response = calls[c].up.body

\* The audit_requests rows call c wrote.
RequestsWrittenBy(c) == {audit_requests[i] : i \in RowIdsOf(c, "db.InsertAuditRequest")}

(***************************************************************************)
(* C16 (as stated): the Request that GetAuditRequests returns for the row  *)
(* a call wrote is the call's inbound body, fragment for fragment.         *)
(***************************************************************************)
C16_StoredRequestIsInboundBody ==
    LET listed == GetAuditRequests(audit_requests, MaxLimit, 0)
    IN \A c \in CallIds :
          BodyRead(c) =>
              \A k \in DOMAIN listed :
                  listed[k].ID \in RowIdsOf(c, "db.InsertAuditRequest") =>
                      listed[k].Request = calls[c].r.body

(***************************************************************************)
(* C17 (as stated): a call whose body was read carries the body's method,  *)
(* or "unknown" when the body does not parse or names none; its            *)
(* AuditRequest insert stores a row whenever the storage I/O succeeds and  *)
(* the requestID is new, whatever the body is; and the call is forwarded   *)
(* when a target is configured.                                            *)
(***************************************************************************)
C17_AnyReadBodyIsStoredAndForwarded ==
    \A c \in CallIds :
        BodyRead(c) =>
            /\ calls[c].method = MethodOf(calls[c].r.body)
            /\ (calls[c].pc = "insertRequest"
                   /\ UniqueRequestID(audit_requests, calls[c].requestID)) =>
                  InsertAuditRequest(audit_requests, AuditRequestOf(calls[c]), TRUE).err
                      = NoError
            /\ (Done(c) /\ targetURL = GoodTarget) => Count(c, "httpClient.Do") = 1

(***************************************************************************)
(* C18: a Database.InsertAuditRequest of a record whose requestID is       *)
(* already in audit_requests returns an error and leaves both tables as    *)
(* they were; and in every store state no two audit_requests rows share a  *)
(* requestID.                                                              *)
(***************************************************************************)
C18_DuplicateRequestIDRejected ==
    /\ [](\A i, j \in DOMAIN audit_requests :
             i # j => audit_requests[i].request_id # audit_requests[j].request_id)
    /\ [][ (ret'.op = "Database.InsertAuditRequest"
               /\ ~UniqueRequestID(audit_requests, ret'.arg))
           => /\ ret'.err # NoError
              /\ UNCHANGED <<audit_requests, audit_responses>> ]_vars

\* An insert was refused for a requestID that a row already carries, with
\* another row beside it.
C18_Witness ==
    /\ ret.op = "Database.InsertAuditRequest"
    /\ ret.err = "failed to insert audit request"
    /\ Len(audit_requests) = 2
    /\ \E i \in DOMAIN audit_requests : audit_requests[i].request_id = ret.arg

(***************************************************************************)
(* C19: in every store state, a Database.InsertAuditResponse whose storage *)
(* I/O succeeds returns success and appends exactly one row carrying the   *)
(* record's requestID, leaving the rows before it alone, whether or not    *)
(* audit_requests holds that requestID and whether or not audit_responses  *)
(* already does; and every insert that returned success added one row to   *)
(* audit_responses and none to audit_requests.                             *)
(***************************************************************************)
C19_ResponseInsertUnconditional ==
    /\ [](\A resp \in StoreAuditResponses :
             LET res == InsertAuditResponse(audit_responses, resp, TRUE)
             IN /\ res.err = NoError
                /\ Len(res.rows) = Len(audit_responses) + 1
                /\ SubSeq(res.rows, 1, Len(audit_responses)) = audit_responses
                /\ res.rows[Len(res.rows)].request_id = resp.RequestID
                /\ res.id = Len(res.rows))
    /\ [][ (ret'.op = "Database.InsertAuditResponse" /\ ret'.err = NoError /\ ret' # ret)
           => /\ Len(audit_responses') = Len(audit_responses) + 1
              /\ audit_responses'[Len(audit_responses')].request_id = ret'.arg
              /\ UNCHANGED audit_requests ]_vars

\* Two responses stored for a requestID that no request row carries.
C19_Witness ==
    /\ ret.op = "Database.InsertAuditResponse"
    /\ ret.err = NoError
    /\ Len(audit_responses) = 2
    /\ audit_responses[1].request_id = ret.arg
    /\ audit_responses[2].request_id = ret.arg
    /\ \A i \in DOMAIN audit_requests : audit_requests[i].request_id # ret.arg

(***************************************************************************)
(* The listing endpoints: internal/gateway/gateway.go, lines 250-393.      *)
(* A query value is the sequence of its characters; <<>> is an absent (or  *)
(* empty) parameter.                                                       *)
(***************************************************************************)
DigitChars == <<"0", "1", "2", "3", "4", "5", "6", "7", "8", "9">>

IsDigit(ch) == \E d \in DOMAIN DigitChars : DigitChars[d] = ch

DigitValue(ch) == (CHOOSE d \in DOMAIN DigitChars : DigitChars[d] = ch) - 1

RECURSIVE DecimalValue(_)
DecimalValue(s) ==
    IF s = <<>> THEN 0
    ELSE DecimalValue(SubSeq(s, 1, Len(s) - 1)) * 10 + DigitValue(s[Len(s)])

\* strconv.Atoi: an optional sign, then one or more decimal digits.
Atoi(s) ==
    LET signed == s # <<>> /\ Head(s) \in {"+", "-"}
        digits == IF signed THEN Tail(s) ELSE s
    IN IF digits = <<>> \/ \E i \in DOMAIN digits : ~IsDigit(digits[i])
       THEN [err |-> TRUE, val |-> 0]
       ELSE [err |-> FALSE,
             val |-> IF signed /\ Head(s) = "-" THEN 0 - DecimalValue(digits)
                     ELSE DecimalValue(digits)]

DefaultLimit == 50

\* A faulty variant of ParseLimit: the upper bound of the limit is not
\* checked.
ParseLimitWithoutUpperBound(limitStr) ==
    IF limitStr # <<>> /\ ~Atoi(limitStr).err /\ Atoi(limitStr).val > 0
    THEN Atoi(limitStr).val
    ELSE DefaultLimit

\* The limit a listing handler passes to the store for ?limit=limitStr.
ParseLimit(limitStr) ==
    IF limitStr # <<>> /\ ~Atoi(limitStr).err
          /\ Atoi(limitStr).val > 0 /\ Atoi(limitStr).val <= MaxLimit
    THEN Atoi(limitStr).val
    ELSE DefaultLimit

\* The offset a listing handler passes to the store for ?offset=offsetStr.
ParseOffset(offsetStr) ==
    IF offsetStr # <<>> /\ ~Atoi(offsetStr).err /\ Atoi(offsetStr).val >= 0
    THEN Atoi(offsetStr).val
    ELSE 0

\* The query values of the model.
LimitStrings ==
    { <<>>, <<"0">>, <<"1">>, <<"-", "5">>, <<"1", "0", "0", "0">>,
      <<"1", "0", "0", "1">>, <<"5", "0", "0", "0">>, <<"a", "b", "c">> }

OffsetStrings == { <<>>, <<"1">>, <<"-", "1">>, <<"x">> }

MethodStrings == {"", "ping"}

\* Whether the store's query succeeds. A failed query leads to the same 500
\* whatever the query values were, so it is drawn for one pair of them.
QueryOutcomes(limitStr, offsetStr) ==
    IF limitStr = <<>> /\ offsetStr = <<>> THEN BOOLEAN ELSE {TRUE}

\* What a listing handler writes: the JSON object of a listing (kept here
\* beside the query values it answers), or the 500 of http.Error, which
\* carries none of them, when the store's query failed.
ListReply(op, limitStr, offsetStr, items, io) ==
    IF io
    THEN [op |-> op, query |-> [limit |-> limitStr, offset |-> offsetStr],
          status |-> StatusOK, items |-> items,
          limit |-> ParseLimit(limitStr), offset |-> ParseOffset(offsetStr),
          count |-> Len(items)]
    ELSE [op |-> op, query |-> [limit |-> <<>>, offset |-> <<>>],
          status |-> StatusInternalServerError, items |-> <<>>,
          limit |-> 0, offset |-> 0, count |-> 0]

\* Gateway.GetAuditRequests: GET /audit/requests.
HandleGetAuditRequests ==
    /\ \E limitStr \in LimitStrings, offsetStr \in OffsetStrings :
       \E io \in QueryOutcomes(limitStr, offsetStr) :
        ret' = ListReply("Gateway.GetAuditRequests", limitStr, offsetStr,
                         GetAuditRequests(audit_requests,
                                          ParseLimit(limitStr), ParseOffset(offsetStr)), io)
    /\ UNCHANGED <<targetURL, tinybirdDB, audit_requests, audit_responses, tinybird,
                   upstream, now, calls>>

\* Gateway.GetAuditResponses: GET /audit/responses.
HandleGetAuditResponses ==
    /\ \E limitStr \in LimitStrings, offsetStr \in OffsetStrings :
       \E io \in QueryOutcomes(limitStr, offsetStr) :
        ret' = ListReply("Gateway.GetAuditResponses", limitStr, offsetStr,
                         GetAuditResponses(audit_responses,
                                           ParseLimit(limitStr), ParseOffset(offsetStr)), io)
    /\ UNCHANGED <<targetURL, tinybirdDB, audit_requests, audit_responses, tinybird,
                   upstream, now, calls>>

\* Gateway.GetOrphanedRequests: GET /audit/orphaned.
HandleGetOrphanedRequests ==
    /\ \E limitStr \in LimitStrings, offsetStr \in OffsetStrings :
       \E io \in QueryOutcomes(limitStr, offsetStr) :
        ret' = ListReply("Gateway.GetOrphanedRequests", limitStr, offsetStr,
                         GetOrphanedRequests(audit_requests, audit_responses,
                                             ParseLimit(limitStr), ParseOffset(offsetStr)), io)
    /\ UNCHANGED <<targetURL, tinybirdDB, audit_requests, audit_responses, tinybird,
                   upstream, now, calls>>

\* Gateway.GetAuditLogs: GET /audit/logs, with or without ?method=.
HandleGetAuditLogs ==
    /\ \E limitStr \in LimitStrings, offsetStr \in OffsetStrings, method \in MethodStrings :
       \E io \in QueryOutcomes(limitStr, offsetStr) :
        ret' = ListReply("Gateway.GetAuditLogs", limitStr, offsetStr,
                         IF method # ""
                         THEN GetAuditLogsByMethod(audit_requests, audit_responses, method,
                                                   ParseLimit(limitStr), ParseOffset(offsetStr))
                         ELSE GetAuditLogs(audit_requests, audit_responses,
                                           ParseLimit(limitStr), ParseOffset(offsetStr)), io)
    /\ UNCHANGED <<targetURL, tinybirdDB, audit_requests, audit_responses, tinybird,
                   upstream, now, calls>>

\* The records other callers store while listings are served: one body and
\* one outcome, stamped with the current time, for every requestID of the
\* model. What a listing reports about limit, offset and count does not
\* depend on the rows' contents.
ListAuditRequests ==
    {req \in StoreAuditRequests : req.Request = <<PING>> /\ req.Timestamp = now}

ListAuditResponses ==
    {resp \in StoreAuditResponses : resp.StatusCode = StatusOK /\ resp.Timestamp = now}

\* A Database.InsertAuditRequest by another caller.
ListInsertAuditRequest ==
    /\ \E req \in ListAuditRequests, io \in BOOLEAN :
        LET res == InsertAuditRequest(audit_requests, req, io)
        IN /\ Len(res.rows) <= MaxRows
           /\ audit_requests' = res.rows
           /\ ret' = Returned("Database.InsertAuditRequest", res.err, res.err, req.RequestID)
    /\ UNCHANGED <<targetURL, tinybirdDB, audit_responses, tinybird, upstream, now, calls>>

\* A Database.InsertAuditResponse by another caller.
ListInsertAuditResponse ==
    /\ \E resp \in ListAuditResponses, io \in BOOLEAN :
        LET res == InsertAuditResponse(audit_responses, resp, io)
        IN /\ Len(res.rows) <= MaxRows
           /\ audit_responses' = res.rows
           /\ ret' = Returned("Database.InsertAuditResponse", res.err, res.err, resp.RequestID)
    /\ UNCHANGED <<targetURL, tinybirdDB, audit_requests, tinybird, upstream, now, calls>>

ListNext ==
    \/ ListInsertAuditRequest
    \/ ListInsertAuditResponse
    \/ HandleGetAuditRequests
    \/ HandleGetAuditResponses
    \/ HandleGetOrphanedRequests
    \/ HandleGetAuditLogs

ListSpec == StoreInit /\ [][ListNext]_vars

ListOps ==
    {"Gateway.GetAuditRequests", "Gateway.GetAuditResponses",
     "Gateway.GetOrphanedRequests", "Gateway.GetAuditLogs"}

\* The limits and offsets the listing contract names for the query values
\* of the model.
ExpectedLimits ==
    { [q |-> <<>>, v |-> 50], [q |-> <<"0">>, v |-> 50], [q |-> <<"1">>, v |-> 1],
      [q |-> <<"-", "5">>, v |-> 50],
      [q |-> <<"1", "0", "0", "0">>, v |-> 1000], [q |-> <<"1", "0", "0", "1">>, v |-> 50],
      [q |-> <<"5", "0", "0", "0">>, v |-> 50], [q |-> <<"a", "b", "c">>, v |-> 50] }

ExpectedOffsets ==
    { [q |-> <<>>, v |-> 0], [q |-> <<"1">>, v |-> 1],
      [q |-> <<"-", "1">>, v |-> 0], [q |-> <<"x">>, v |-> 0] }

(***************************************************************************)
(* C20: every listing a listing endpoint has returned reports the limit    *)
(* and offset the contract names for its query values (l when 1 <= l <=    *)
(* 1000, else 50; o when o >= 0, else 0), a limit within 1..1000, and a    *)
(* count that is the number of items returned and at most the limit.       *)
(***************************************************************************)
C20_LimitAndOffsetClamped ==
    (ret.op \in ListOps /\ ret.status = StatusOK) =>
        /\ [q |-> ret.query.limit, v |-> ret.limit] \in ExpectedLimits
        /\ [q |-> ret.query.offset, v |-> ret.offset] \in ExpectedOffsets
        /\ ret.limit \in 1..MaxLimit
        /\ ret.offset >= 0
        /\ ret.count = Len(ret.items)
        /\ ret.count <= ret.limit

\* ?limit=1 cut a listing of two rows down to one; ?limit=5000 and
\* ?offset=-1 are covered by the listings that fall back to the defaults.
C20_Witness ==
    /\ ret.op \in ListOps
    /\ ret.status = StatusOK
    /\ ret.query.limit = <<"1">>
    /\ ret.query.offset = <<"-", "1">>
    /\ ret.count = 1
    /\ Len(audit_requests) = 2

(***************************************************************************)
(* unwrapSSEResponse on its own: a body is drawn, then normalised.         *)
(***************************************************************************)
\* The longest body enumerated fragment by fragment.
MaxBody == 4

SSEAlphabet == {EVENT, DATA, SP, NL, PING}

RECURSIVE TextsUpTo(_, _)
TextsUpTo(alphabet, n) ==
    IF n = 0 THEN {<<>>}
    ELSE LET shorter == TextsUpTo(alphabet, n - 1)
         IN shorter \cup {Append(t, a) : t \in shorter, a \in alphabet}

\* Streams of several lines, longer than MaxBody: an event with two data
\* lines separated by a blank line, two data lines, CRLF line ends, a data
\* line without the space, an event without data, and data lines whose
\* payload reads as a data line or as an event line itself.
SSEExamples ==
    { <<EVENT, SP, "message", NL, DATA, SP, PING, NL, NL, DATA, SP, ECHO>>,
      <<DATA, SP, PING, NL, DATA, SP, ECHO, NL, NL>>,
      <<EVENT, SP, "message", "\r", NL, DATA, SP, PING, "\r", NL, "\r", NL>>,
      <<EVENT, SP, "message", NL, DATA, PING, NL, NL>>,
      <<EVENT, SP, "message", NL, NL>>,
      <<DATA, SP, DATA, SP, PING>>,
      <<EVENT, SP, "message", NL, DATA, SP, EVENT, SP, "message">> }

SSEBodies == TextsUpTo(SSEAlphabet, MaxBody) \cup SSEExamples

\* The body handed to unwrapSSEResponse.
UnwrapInput(data) == [op |-> "input", data |-> data]

\* unwrapSSEResponse(data) has returned out.
Unwrapped(data, out) == [op |-> "unwrapSSEResponse", data |-> data, out |-> out]

\* The call of unwrapSSEResponse at the top of InsertAuditResponse.
Unwrap ==
    /\ ret.op = "input"
    /\ ret' = Unwrapped(ret.data, unwrapSSEResponse(ret.data))
    /\ UNCHANGED <<targetURL, tinybirdDB, audit_requests, audit_responses,
                   tinybird, upstream, now, calls>>

\* A caller picks the next body.
UnwrapNextBody ==
    /\ ret.op # "input"
    /\ \E data \in SSEBodies : ret' = UnwrapInput(data)
    /\ UNCHANGED <<targetURL, tinybirdDB, audit_requests, audit_responses,
                   tinybird, upstream, now, calls>>

\* unwrapSSEResponse applied to a body it has returned: once holds the
\* result of the first application, out that of the second.
UnwrappedAgain(data, once, out) ==
    [op |-> "unwrapSSEResponse twice", data |-> data, once |-> once, out |-> out]

\* The body normalized once is normalized again.
UnwrapAgain ==
    /\ ret.op = "unwrapSSEResponse"
    /\ ret' = UnwrappedAgain(ret.data, ret.out, unwrapSSEResponse(ret.out))
    /\ UNCHANGED <<targetURL, tinybirdDB, audit_requests, audit_responses,
                   tinybird, upstream, now, calls>>

UnwrapNext == Unwrap \/ UnwrapAgain \/ UnwrapNextBody

UnwrapSpec == StoreInit /\ [][UnwrapNext]_vars

\* The lines of a body: split at newlines, a trailing carriage return and
\* surrounding blanks dropped.
LinesOf(b) == [i \in DOMAIN Split(b, NL) |-> TrimSpace(Split(b, NL)[i])]

\* A data: line as Server-Sent Events define it: the field name data and a
\* colon; one space after the colon is optional and no part of the payload.
IsDataLine(line) == HasPrefix(line, <<DATA>>)

PayloadOf(line) == TrimPrefix(TrimPrefix(line, <<DATA>>), <<SP>>)

RECURSIVE PayloadsOfDataLines(_)
PayloadsOfDataLines(lines) ==
    IF lines = <<>> THEN <<>>
    ELSE (IF IsDataLine(Head(lines)) THEN PayloadOf(Head(lines)) ELSE <<>>)
         \o PayloadsOfDataLines(Tail(lines))

HasDataLine(b) == \E i \in DOMAIN LinesOf(b) : IsDataLine(LinesOf(b)[i])

BeginsAsSSE(b) == HasPrefix(b, <<EVENT>>) \/ HasPrefix(b, <<DATA>>)

(***************************************************************************)
(* C21: unwrapSSEResponse(b) is b when b does not begin with "event:" or   *)
(* "data:"; otherwise it is the in-order concatenation of the payloads of  *)
(* all data: lines of b, or b when b has no data: line (read in the code's  *)
(* favour: or when its data: lines carry no payload at all).               *)
(***************************************************************************)
C21_UnwrapIsDataPayloads ==
    ret.op = "unwrapSSEResponse" =>
        ret.out = IF ~BeginsAsSSE(ret.data) THEN ret.data
                  ELSE IF ~HasDataLine(ret.data) THEN ret.data
                  ELSE IF PayloadsOfDataLines(LinesOf(ret.data)) = <<>> THEN ret.data
                  ELSE PayloadsOfDataLines(LinesOf(ret.data))

\* What does hold: the lines that count are the ones that read "data: "
\* with the space, and a body that has none of them is returned as it is.
C21_UnwrapIsSpacedDataPayloads ==
    ret.op = "unwrapSSEResponse" =>
        LET lines == LinesOf(ret.data)
            spaced == {i \in DOMAIN lines : HasPrefix(lines[i], <<DATA, SP>>)}
            Rest(l) == IF HasPrefix(l, <<DATA, SP>>) THEN SubSeq(l, 3, Len(l)) ELSE <<>>
            RECURSIVE Cat(_)
            Cat(i) == IF i > Len(lines) THEN <<>> ELSE Rest(lines[i]) \o Cat(i + 1)
        IN ret.out = IF ~BeginsAsSSE(ret.data) \/ spaced = {} THEN ret.data
                     ELSE Cat(1)

\* The example of the contract: two data lines, one payload after the other.
C21_ExampleUnwrapped ==
    /\ ret.op = "unwrapSSEResponse"
    /\ ret.data = <<EVENT, SP, "message", NL, DATA, SP, PING, NL, NL, DATA, SP, ECHO>>
    /\ ret.out = <<PING, ECHO>>

(***************************************************************************)
(* The paginated queries of the store, with inserts in any timestamp       *)
(* order. SQL fixes the order of rows with equal timestamps in no way, so  *)
(* a query may return any listing that is sorted by timestamp.             *)
(***************************************************************************)
Arrangements(n) ==
    {p \in [1..n -> 1..n] : \A i, j \in 1..n : p[i] = p[j] => i = j}

\* A faulty variant of TimestampDescOrders: no ORDER BY, the rows come in rowid order.
RowidOrder(rows) == {rows}

\* ORDER BY timestamp DESC: every arrangement of the rows in which no row
\* precedes a row with a greater timestamp.
TimestampDescOrders(rows) ==
    LET arranged == {[i \in 1..Len(rows) |-> rows[p[i]]] : p \in Arrangements(Len(rows))}
    IN {l \in arranged : \A i, j \in 1..Len(l) : i < j => l[i].timestamp >= l[j].timestamp}

\* The results Database.GetAuditRequests may return on the table reqs.
GetAuditRequestsResults(reqs, limit, offset) ==
    {[i \in 1..Len(LimitOffset(l, limit, offset)) |->
         ScanAuditRequest(LimitOffset(l, limit, offset)[i])] :
     l \in TimestampDescOrders(reqs)}

\* The results Database.GetAuditResponses may return on the table resps.
GetAuditResponsesResults(resps, limit, offset) ==
    {[i \in 1..Len(LimitOffset(l, limit, offset)) |->
         ScanAuditResponse(LimitOffset(l, limit, offset)[i])] :
     l \in TimestampDescOrders(resps)}

\* The results Database.GetOrphanedRequests may return: the request side of
\* the LEFT JOIN rows WHERE resp.request_id IS NULL, ordered and cut.
GetOrphanedRequestsResults(reqs, resps, limit, offset) ==
    LET joined == SelectSeq(LeftJoin(reqs, resps), LAMBDA j : j.resp.request_id = NULLID)
        orphans == [i \in 1..Len(joined) |-> joined[i].r]
    IN {[i \in 1..Len(LimitOffset(l, limit, offset)) |->
            ScanAuditRequest(LimitOffset(l, limit, offset)[i])] :
        l \in TimestampDescOrders(orphans)}

\* The limits and offsets the callers of the model pass.
QueryLimits == {1, 2}
QueryOffsets == {0, 1}

\* A query has returned: its rows, or nil and the error of d.db.Query.
Listed(op, limit, offset, items) ==
    [op |-> op, limit |-> limit, offset |-> offset, items |-> items, err |-> NoError]

QueryFailed(op, limit, offset) ==
    [op |-> op, limit |-> limit, offset |-> offset, items |-> <<>>,
     err |-> "failed to query"]

QueryAuditRequests ==
    /\ \E limit \in QueryLimits, offset \in QueryOffsets :
        \/ \E items \in GetAuditRequestsResults(audit_requests, limit, offset) :
              ret' = Listed("Database.GetAuditRequests", limit, offset, items)
        \/ ret' = QueryFailed("Database.GetAuditRequests", limit, offset)
    /\ UNCHANGED <<targetURL, tinybirdDB, audit_requests, audit_responses,
                   tinybird, upstream, now, calls>>

QueryAuditResponses ==
    /\ \E limit \in QueryLimits, offset \in QueryOffsets :
        \/ \E items \in GetAuditResponsesResults(audit_responses, limit, offset) :
              ret' = Listed("Database.GetAuditResponses", limit, offset, items)
        \/ ret' = QueryFailed("Database.GetAuditResponses", limit, offset)
    /\ UNCHANGED <<targetURL, tinybirdDB, audit_requests, audit_responses,
                   tinybird, upstream, now, calls>>

QueryOrphanedRequests ==
    /\ \E limit \in QueryLimits, offset \in QueryOffsets :
        \/ \E items \in GetOrphanedRequestsResults(audit_requests, audit_responses,
                                                   limit, offset) :
              ret' = Listed("Database.GetOrphanedRequests", limit, offset, items)
        \/ ret' = QueryFailed("Database.GetOrphanedRequests", limit, offset)
    /\ UNCHANGED <<targetURL, tinybirdDB, audit_requests, audit_responses,
                   tinybird, upstream, now, calls>>

\* The results Database.GetAuditLogs may return: the rows of the audit_logs
\* view, ordered and cut.
GetAuditLogsResults(reqs, resps, limit, offset) ==
    {[i \in 1..Len(LimitOffset(l, limit, offset)) |->
         ScanAuditLog(LimitOffset(l, limit, offset)[i])] :
     l \in TimestampDescOrders(AuditLogsView(reqs, resps))}

\* A caller reads the whole combined view.
QueryAuditLogs ==
    /\ \/ \E items \in GetAuditLogsResults(audit_requests, audit_responses, MaxLimit, 0) :
             ret' = Listed("Database.GetAuditLogs", MaxLimit, 0, items)
       \/ ret' = QueryFailed("Database.GetAuditLogs", MaxLimit, 0)
    /\ UNCHANGED <<targetURL, tinybirdDB, audit_requests, audit_responses,
                   tinybird, upstream, now, calls>>

QueryNext ==
    \/ StoreInsertAuditRequest
    \/ StoreInsertAuditResponse
    \/ QueryAuditLogs
    \/ QueryAuditRequests
    \/ QueryAuditResponses
    \/ QueryOrphanedRequests

QuerySpec == StoreInit /\ [][QueryNext]_vars

QueryOps ==
    {"Database.GetAuditRequests", "Database.GetAuditResponses",
     "Database.GetOrphanedRequests"}

\* The ids and timestamps of the rows a query ranges over.
ListedRows(op) ==
    CASE op = "Database.GetAuditRequests" ->
            {[ID |-> audit_requests[i].id, Timestamp |-> audit_requests[i].timestamp] :
             i \in DOMAIN audit_requests}
      [] op = "Database.GetAuditResponses" ->
            {[ID |-> audit_responses[i].id, Timestamp |-> audit_responses[i].timestamp] :
             i \in DOMAIN audit_responses}
      [] OTHER ->
            {[ID |-> audit_requests[i].id, Timestamp |-> audit_requests[i].timestamp] :
             i \in {k \in DOMAIN audit_requests :
                      \A m \in DOMAIN audit_responses :
                          audit_responses[m].request_id # audit_requests[k].request_id}}

\* items is the slice [offset, offset + limit) of a listing of rows by
\* non-increasing timestamp: it has the slice's length, its records are
\* distinct rows, sorted, and the record at place g of the listing has
\* fewer than g rows newer than it and at least g rows as new as it.
IsSliceOfTimestampDescOrder(items, rows, limit, offset) ==
    LET n == Cardinality(rows)
        rest == IF n > offset THEN n - offset ELSE 0
    IN /\ Len(items) = (IF limit < rest THEN limit ELSE rest)
       /\ \A i \in DOMAIN items :
            [ID |-> items[i].ID, Timestamp |-> items[i].Timestamp] \in rows
       /\ \A i, j \in DOMAIN items :
            /\ i < j => items[i].Timestamp >= items[j].Timestamp
            /\ i # j => items[i].ID # items[j].ID
       /\ \A i \in DOMAIN items :
            /\ Cardinality({r \in rows : r.Timestamp > items[i].Timestamp}) <= offset + i - 1
            /\ Cardinality({r \in rows : r.Timestamp >= items[i].Timestamp}) >= offset + i

(***************************************************************************)
(* C22: whatever order the rows were inserted in, GetAuditRequests,        *)
(* GetAuditResponses and GetOrphanedRequests return the slice [offset,     *)
(* offset + limit) of their rows ordered by non-increasing timestamp.      *)
(***************************************************************************)
C22_PageIsSliceOfTimestampOrder ==
    (ret.op \in QueryOps /\ ret.err = NoError) =>
        IsSliceOfTimestampDescOrder(ret.items, ListedRows(ret.op), ret.limit, ret.offset)

\* The older request was inserted first and the newer one after it; the
\* second page of one record holds the older request.
C22_Witness ==
    /\ ret.op = "Database.GetAuditRequests"
    /\ Len(audit_requests) = 2
    /\ audit_requests[1].timestamp < audit_requests[2].timestamp
    /\ ret.limit = 1
    /\ ret.offset = 1
    /\ Len(ret.items) = 1
    /\ ret.items[1].ID = audit_requests[1].id

\* The places of the combined view that show the request row r.
LogRowsOf(items, r) == {i \in DOMAIN items : items[i].ID = r.id}

\* The log row l shows the request row r with the response row p.
ShowsPair(l, r, p) ==
    /\ l.ID = r.id
    /\ l.RequestID = r.request_id
    /\ l.Timestamp = r.timestamp
    /\ l.Method = r.method
    /\ l.Request = r.request
    /\ l.Response = p.response
    /\ l.StatusCode = p.status_code
    /\ l.ProcessTime = p.process_time_ms
    /\ l.Error = p.error

\* The log row l shows the request row r with the defaults of an absent
\* response.
ShowsAlone(l, r) ==
    /\ l.ID = r.id
    /\ l.RequestID = r.request_id
    /\ l.Timestamp = r.timestamp
    /\ l.Method = r.method
    /\ l.Request = r.request
    /\ l.Response = <<LBRACE, RBRACE>>
    /\ l.StatusCode = 0
    /\ l.ProcessTime = 0
    /\ l.Error = NoText

(***************************************************************************)
(* C23: the combined log view a caller reads is the left join of the       *)
(* requests with the responses on requestID: a request without a response  *)
(* appears exactly once, with response "{}", status 0 and process time 0;  *)
(* a request with responses appears once per response, with that           *)
(* response's body, status, process time and error; a response whose       *)
(* requestID matches no request appears in no row.                         *)
(***************************************************************************)
C23_LogViewIsLeftJoin ==
    (ret.op = "Database.GetAuditLogs" /\ ret.err = NoError) =>
        LET items == ret.items
        IN /\ \A k \in DOMAIN audit_requests :
                LET r == audit_requests[k]
                    m == Matching(audit_responses, r.request_id)
                    shown == LogRowsOf(items, r)
                IN IF m = <<>>
                   THEN /\ Cardinality(shown) = 1
                        /\ \A i \in shown : ShowsAlone(items[i], r)
                   ELSE /\ Cardinality(shown) = Len(m)
                        /\ \A i \in shown : \E j \in DOMAIN m : ShowsPair(items[i], r, m[j])
                        /\ \A j \in DOMAIN m : \E i \in shown : ShowsPair(items[i], r, m[j])
           /\ \A i \in DOMAIN items :
                \E k \in DOMAIN audit_requests : items[i].ID = audit_requests[k].id
           /\ \A j \in DOMAIN audit_responses :
                (\A k \in DOMAIN audit_requests :
                    audit_requests[k].request_id # audit_responses[j].request_id)
                => \A i \in DOMAIN items : items[i].RequestID # audit_responses[j].request_id

\* One request without a response and one response for a requestID that no
\* request has: the view is the request alone, with the defaults.
C23_Witness ==
    /\ ret.op = "Database.GetAuditLogs"
    /\ ret.err = NoError
    /\ Len(audit_requests) = 1
    /\ Len(audit_responses) = 1
    /\ audit_responses[1].request_id # audit_requests[1].request_id
    /\ Len(ret.items) = 1
    /\ ret.items[1].Response = <<LBRACE, RBRACE>>
    /\ ret.items[1].StatusCode = 0

(***************************************************************************)
(* Database.GetStats, read while callers insert.                           *)
(***************************************************************************)
\* A float64 that is the quotient of two integers, kept exact.
FloatOf(n) == [num |-> n, den |-> 1]
FloatDiv(x, y) == [num |-> x.num * y.den, den |-> x.den * y.num]
FloatMul(x, y) == [num |-> x.num * y.num, den |-> x.den * y.den]

\* SELECT COUNT(*) FROM audit_responses WHERE error IS NOT NULL AND error != ''
RECURSIVE CountErrors(_)
CountErrors(resps) ==
    IF resps = <<>> THEN 0
    ELSE (IF Head(resps).error # NoText THEN 1 ELSE 0) + CountErrors(Tail(resps))

\* SELECT COUNT(*) of the orphaned-requests join.
CountOrphaned(reqs, resps) ==
    Len(SelectSeq(LeftJoin(reqs, resps), LAMBDA j : j.resp.request_id = NULLID))

Percent == 100

\* A faulty variant of ErrorRate: the quotient, not multiplied by 100.
ErrorRateAsFraction(errorCount, totalResponses) ==
    IF totalResponses > 0
    THEN FloatDiv(FloatOf(errorCount), FloatOf(totalResponses))
    ELSE FloatOf(0)

\* stats["error_rate"]
ErrorRate(errorCount, totalResponses) ==
    IF totalResponses > 0
    THEN FloatMul(FloatDiv(FloatOf(errorCount), FloatOf(totalResponses)), FloatOf(Percent))
    ELSE FloatOf(0)

\* Database.GetStats, its counts and error figures: an error when one of the
\* two total counts cannot be read; the error figures are left out when
\* their query fails (the failure is logged only).
GetStats(reqs, resps, ioTotals, ioErrors) ==
    IF ~ioTotals
    THEN [op |-> "Database.GetStats", err |-> "failed to get total count", stats |-> Nil]
    ELSE [op |-> "Database.GetStats", err |-> NoError,
          stats |->
            IF ioErrors
            THEN [total_requests |-> Len(reqs),
                  total_responses |-> Len(resps),
                  orphaned_requests |-> CountOrphaned(reqs, resps),
                  error_count |-> CountErrors(resps),
                  error_rate |-> ErrorRate(CountErrors(resps), Len(resps))]
            ELSE [total_requests |-> Len(reqs),
                  total_responses |-> Len(resps),
                  orphaned_requests |-> CountOrphaned(reqs, resps)]]

StatsGetStats ==
    /\ \E ioTotals \in BOOLEAN, ioErrors \in BOOLEAN :
        ret' = GetStats(audit_requests, audit_responses, ioTotals, ioErrors)
    /\ UNCHANGED <<targetURL, tinybirdDB, audit_requests, audit_responses,
                   tinybird, upstream, now, calls>>

StatsNext ==
    \/ StoreInsertAuditRequest
    \/ StoreInsertAuditResponse
    \/ StatsGetStats

StatsSpec == StoreInit /\ [][StatsNext]_vars

\* GetStats has reported the error figures.
ReportsErrors ==
    /\ ret.op = "Database.GetStats"
    /\ ret.err = NoError
    /\ "error_count" \in DOMAIN ret.stats

ErrorTagged == {j \in DOMAIN audit_responses : audit_responses[j].error # NoText}

MaxPosts == 2

\* What the Events API may answer to one POST: no answer at all (transport
\* error), the two statuses the sink accepts, and other 2xx, 4xx and 5xx
\* statuses.
SinkAnswers ==
    {[transport |-> TRUE, status |-> 0]}
    \cup {[transport |-> FALSE, status |-> st] :
            st \in {StatusOK, StatusAccepted, 201, 204, StatusBadRequest,
                    StatusInternalServerError}}

\* A call on the sink has returned err after the answer of its POST.
SinkReturned(op, answer, arg) ==
    [op |-> op, err |-> sendEvent(answer), storeErr |-> NoError, arg |-> arg,
     answer |-> answer]

\* TinybirdDatabase.InsertAuditRequest: builds the event and returns what
\* sendEvent returns after its one client.Do.
SinkInsertAuditRequest ==
    /\ BagCardinality(tinybird) < MaxPosts
    /\ \E req \in DualAuditRequests, answer \in SinkAnswers :
        /\ tinybird' = tinybird (+) Posted(TinybirdRequestEvent(req, now), answer)
        /\ ret' = SinkReturned("TinybirdDatabase.InsertAuditRequest", answer, req.RequestID)
    /\ UNCHANGED <<targetURL, tinybirdDB, audit_requests, audit_responses, upstream,
                   now, calls>>

\* TinybirdDatabase.InsertAuditResponse.
SinkInsertAuditResponse ==
    /\ BagCardinality(tinybird) < MaxPosts
    /\ \E resp \in DualAuditResponses, answer \in SinkAnswers :
        /\ tinybird' = tinybird (+) Posted(TinybirdResponseEvent(resp, now), answer)
        /\ ret' = SinkReturned("TinybirdDatabase.InsertAuditResponse", answer, resp.RequestID)
    /\ UNCHANGED <<targetURL, tinybirdDB, audit_requests, audit_responses, upstream,
                   now, calls>>

SinkNext == SinkInsertAuditRequest \/ SinkInsertAuditResponse

SinkSpec == StoreInit /\ [][SinkNext]_vars

SinkOps == {"TinybirdDatabase.InsertAuditRequest", "TinybirdDatabase.InsertAuditResponse"}

\* The endpoint answered, with 200 or 202.
Accepted(answer) == ~answer.transport /\ answer.status \in {StatusOK, StatusAccepted}

(***************************************************************************)
(* C25: a write on the sink reports success exactly when the ingestion     *)
(* endpoint answered 200 or 202 (every other status and every transport    *)
(* error is a failure), and each InsertAuditRequest / InsertAuditResponse  *)
(* on the sink makes exactly one HTTP attempt.                             *)
(***************************************************************************)
C25_SinkSuccessIffAccepted ==
    /\ [](ret.op \in SinkOps => (ret.err = NoError <=> Accepted(ret.answer)))
    /\ [][ret'.op \in SinkOps =>
             BagCardinality(tinybird') = BagCardinality(tinybird) + 1]_vars

\* The endpoint answered 201 Created to the only POST of a write: a failure.
C25_Witness ==
    /\ ret.op \in SinkOps
    /\ ~ret.answer.transport
    /\ ret.answer.status = 201
    /\ ret.err # NoError
    /\ BagCardinality(tinybird) = 1

(***************************************************************************)
(* The pipeline under fair scheduling: a call that has started goes on     *)
(* whenever its next step can be taken. The store, the sink and the        *)
(* upstream call return (with success, an error, or the forwarding         *)
(* timeout), so a started handler is never blocked for good; when a new    *)
(* call arrives is up to the callers.                                      *)
(***************************************************************************)
Proceed(c) ==
    \/ ProxyInsertAuditRequest(c)
    \/ ProxyTinybirdRequest(c)
    \/ ForwardDo(c)
    \/ ForwardInsertAuditResponse(c)
    \/ HandleErrorInsertAuditResponse(c)
    \/ TinybirdResponse(c)

\* A call between its first step and its reply: exactly then one of the
\* steps of Proceed is enabled.
Pending(c) == calls[c].pc \notin {"idle", "done"}

\* Weak fairness of every call's Proceed, WF_vars(Proceed(c)), written out:
\* its steps are enabled exactly while the call is pending, and each of them
\* changes calls[c].
FairSpec ==
    /\ Init
    /\ [][Next]_vars
    /\ \A c \in CallIds :
          []<>(~Pending(c)) \/ []<><<Proceed(c) /\ calls'[c] # calls[c]>>_vars

Started(c) == calls[c].pc # "idle"

Replied(c) == calls[c].pc = "done" /\ calls[c].w.written

(***************************************************************************)
(* C26: every ProxyJSONRPC call that has started eventually has written a  *)
(* response and returned; the response is written once: before the write   *)
(* the caller has nothing, and from the write on neither the response nor  *)
(* anything else of the call changes.                                      *)
(***************************************************************************)
C26_EveryCallReplies ==
    /\ \A c \in CallIds : Started(c) ~> Replied(c)
    /\ [](\A c \in CallIds : calls[c].w.written <=> calls[c].pc = "done")
    /\ [][\A c \in CallIds : calls[c].w.written => calls'[c] = calls[c]]_vars

\* A call got its reply on the error path while another one was still on
\* its way.
C26_Witness ==
    \E c, d \in CallIds :
        /\ Replied(c)
        /\ calls[c].path = "handleError"
        /\ calls[d].pc \in {"insertRequest", "forward", "insertResponse"}

\* Every row of the table before is in the table after, at its place and
\* with all its columns.
RowsKept(before, after) ==
    \A i \in DOMAIN before : i \in DOMAIN after /\ after[i] = before[i]

\* The ids of a table are pairwise distinct and grow with insertion order.
IdsIncrease(rows) ==
    \A i, j \in DOMAIN rows :
        /\ i < j => rows[i].id < rows[j].id
        /\ i # j => rows[i].id # rows[j].id

(***************************************************************************)
(* C27: no step of the pipeline updates or deletes a row of audit_requests *)
(* or audit_responses: every row, with all its columns and its id, is the  *)
(* same in every later state; the ids of a table are pairwise distinct and *)
(* increase with insertion order.                                          *)
(***************************************************************************)
C27_RowsNeverChange ==
    /\ [][RowsKept(audit_requests, audit_requests')
          /\ RowsKept(audit_responses, audit_responses')]_vars
    /\ [](IdsIncrease(audit_requests) /\ IdsIncrease(audit_responses))

\* Two calls recorded an outcome under one requestID: the second insert left
\* the first row as it was and took the next id.
C27_Witness ==
    /\ Len(audit_responses) = 2
    /\ audit_responses[1].request_id = audit_responses[2].request_id
    /\ audit_responses[1].id = 1
    /\ audit_responses[2].id = 2
    /\ Len(audit_requests) >= 1

\* Within call c, the sink was invoked for a record only after the call's
\* store write of that record (storeOp) had returned success.
SinkOnlyAfterStoreSuccess(c, storeOp, sinkOp) ==
    Count(c, sinkOp) > 0 =>
        /\ Succeeded(c, storeOp)
        /\ Pos(c, storeOp) < Pos(c, sinkOp)

(***************************************************************************)
(* C28: in the pipeline the sink is invoked for a record only after the    *)
(* store write of that same record has succeeded; when the store write of  *)
(* a record fails, the sink is not invoked for that record.                *)
(***************************************************************************)
C28_SinkOnlyAfterStoreSuccess ==
    \A c \in CallIds :
        /\ SinkOnlyAfterStoreSuccess(c, "db.InsertAuditRequest", "tinybird.InsertAuditRequest")
        /\ SinkOnlyAfterStoreSuccess(c, "db.InsertAuditResponse", "tinybird.InsertAuditResponse")

\* What the pipeline does keep: the sink is invoked for a record only after
\* the store write of that record has returned, with success or not.
C28_SinkAfterStoreReturned ==
    \A c \in CallIds :
        /\ Count(c, "tinybird.InsertAuditRequest") > 0 =>
              /\ Count(c, "db.InsertAuditRequest") > 0
              /\ Pos(c, "db.InsertAuditRequest") < Pos(c, "tinybird.InsertAuditRequest")
        /\ Count(c, "tinybird.InsertAuditResponse") > 0 =>
              /\ Count(c, "db.InsertAuditResponse") > 0
              /\ Pos(c, "db.InsertAuditResponse") < Pos(c, "tinybird.InsertAuditResponse")

\* The bytes a stored response column holds, read back through the quoting
\* json.Marshal put around them.
DecodedBytes(b) ==
    IF Len(b) >= 4 /\ SubSeq(b, 1, 2) = <<QUOTE, "base64(">>
                   /\ SubSeq(b, Len(b) - 1, Len(b)) = <<")", QUOTE>>
    THEN SubSeq(b, 3, Len(b) - 2)
    ELSE b

\* The response events the sink was sent under the requestID of call c.
SinkResponseBodiesOf(c) ==
    {e.event.payload : e \in {p \in BagToSet(tinybird) :
                                /\ p.event.datasource = "audit_responses"
                                /\ p.event.request_id = calls[c].requestID}}

(***************************************************************************)
(* C29: for one call, the response body in the event sent to the sink      *)
(* equals the response body persisted in the store for that call (both     *)
(* backends receive the SSE-normalized body). The stored body is compared  *)
(* by its bytes, whatever quoting the store put around them.               *)
(***************************************************************************)
C29_SinkBodyIsStoredBody ==
    \A c \in CallIds :
        (Done(c) /\ Count(c, "tinybird.InsertAuditResponse") > 0) =>
            \A row \in ResponsesWrittenBy(c) :
                SinkResponseBodiesOf(c) = {DecodedBytes(row.response)}

\* The call went down a path that records an outcome: forwardRequest past
\* the upstream call, or handleError.
RecordsOutcome(c) == calls[c].path \in {"forward", "handleError"}

\* The call made op exactly once, and before its write to the caller.
ReturnedBeforeWrite(c, op) ==
    /\ Count(c, op) = 1
    /\ Count(c, "w.Write") = 1
    /\ Pos(c, op) < Pos(c, "w.Write")

(***************************************************************************)
(* C30: on every path that records an outcome, when the status line and    *)
(* the body have been written to the caller, the AuditResponse write to    *)
(* the store, and the sink write when a sink is configured, have been made *)
(* and have returned before that write; while they are outstanding the     *)
(* caller has nothing.                                                     *)
(***************************************************************************)
C30_OutcomeRecordedBeforeReply ==
    \A c \in CallIds :
        /\ (RecordsOutcome(c) /\ calls[c].w.written) =>
              /\ ReturnedBeforeWrite(c, "db.InsertAuditResponse")
              /\ tinybirdDB => ReturnedBeforeWrite(c, "tinybird.InsertAuditResponse")
        /\ calls[c].pc \in {"insertResponse", "handleError", "tinybirdResponse"} =>
              ~calls[c].w.written

\* An error reply went out after the store write had failed and the sink
\* write had returned.
C30_Witness ==
    \E c \in CallIds :
        /\ calls[c].path = "handleError"
        /\ calls[c].w.written
        /\ tinybirdDB
        /\ Count(c, "db.InsertAuditResponse") = 1
        /\ ~Succeeded(c, "db.InsertAuditResponse")
        /\ Count(c, "tinybird.InsertAuditResponse") = 1

(***************************************************************************)
(* C31: on every path, the status_code of each AuditResponse row a call    *)
(* stored is the HTTP status the call writes to its caller: once the call  *)
(* has replied, the row's status equals the status line sent, which is the *)
(* upstream's status on the success path and the local 500, 502 or 503 on  *)
(* a failure path.                                                         *)
(***************************************************************************)
C31_StoredStatusIsRepliedStatus ==
    \A c \in CallIds :
        \A row \in ResponsesWrittenBy(c) :
            /\ row.status_code = calls[c].statusCode
            /\ Done(c) =>
                  /\ calls[c].w.written
                  /\ row.status_code = calls[c].w.status
                  /\ calls[c].path = "forward" =>
                        calls[c].w.status = calls[c].up.StatusCode
                  /\ calls[c].path = "handleError" =>
                        calls[c].w.status \in {StatusInternalServerError, StatusBadGateway,
                                               StatusServiceUnavailable}

\* One call answered its caller with the upstream's 200 and stored 200;
\* another could not read the upstream's 200 reply, answered 500 and stored
\* 500.
C31_Witness ==
    \E c, d \in CallIds :
        /\ Done(c) /\ calls[c].up.kind = "ok"
        /\ \E row \in ResponsesWrittenBy(c) :
              row.status_code = StatusOK /\ calls[c].w.status = StatusOK
        /\ Done(d) /\ calls[d].up.kind = "readfail"
        /\ calls[d].up.StatusCode = StatusOK
        /\ \E row \in ResponsesWrittenBy(d) :
              /\ row.status_code = StatusInternalServerError
              /\ calls[d].w.status = StatusInternalServerError

\* Call c hands its request to httpClient.Do in this step.
Forwards(c) == Count(c, "httpClient.Do") = 0 /\ Count(c, "httpClient.Do")' = 1

\* The requests this step sent upstream.
SentUpstream == BagToSet(upstream' (-) upstream)

(***************************************************************************)
(* C32: a call keeps one requestID from start to end; every AuditRequest   *)
(* row and every AuditResponse row it stored carries that requestID; and   *)
(* the request it sends upstream is a POST carrying that requestID as      *)
(* X-Request-ID, the ip_address of its AuditRequest row as the only        *)
(* X-Forwarded-For value, and the inbound body byte for byte.              *)
(***************************************************************************)
C32_OneCorrelationIDPerCall ==
    /\ [](\A c \in CallIds :
            /\ \A row \in RequestsWrittenBy(c) : row.request_id = calls[c].requestID
            /\ \A row \in ResponsesWrittenBy(c) : row.request_id = calls[c].requestID)
    /\ [][\A c \in CallIds :
            /\ Started(c) => calls'[c].requestID = calls[c].requestID
                             /\ calls'[c].r = calls[c].r
            /\ Forwards(c) =>
                  /\ Cardinality(SentUpstream) = 1
                  /\ \A sent \in SentUpstream :
                        /\ sent.Method = "POST"
                        /\ sent.XRequestID = calls[c].requestID
                        /\ sent.body = calls[c].r.body
                        /\ sent.Header["X-Forwarded-For"] = <<getClientIP(calls[c].r)>>
                        /\ \A row \in RequestsWrittenBy(c) :
                              /\ sent.XRequestID = row.request_id
                              /\ sent.Header["X-Forwarded-For"] = <<row.ip_address>>]_vars

\* A call that came through a proxy chain has stored both rows under its
\* requestID, and a request with that X-Request-ID, the first address of
\* the chain as X-Forwarded-For and the inbound body went upstream, after
\* the clock had moved on from the call's start.
C32_Witness ==
    \E c \in CallIds :
        /\ Done(c)
        /\ calls[c].respTime > calls[c].startTime
        /\ \E req \in RequestsWrittenBy(c), resp \in ResponsesWrittenBy(c) :
              /\ req.request_id = resp.request_id
              /\ req.ip_address = <<"10.0.0.1">>
              /\ \E sent \in BagToSet(upstream) :
                    /\ sent.XRequestID = req.request_id
                    /\ sent.Header["X-Forwarded-For"] = <<req.ip_address>>
                    /\ sent.Header["X-Forwarded-For"] # calls[c].r.Header["X-Forwarded-For"]
                    /\ sent.body = <<PING>>

(***************************************************************************)
(* C33 (as stated): unwrapSSEResponse is idempotent on every input: a body *)
(* normalized once is not changed by normalizing it again.                 *)
(***************************************************************************)
C33_UnwrapIdempotent ==
    ret.op = "unwrapSSEResponse twice" => ret.out = ret.once

(***************************************************************************)
(* C33 (amended): unwrapSSEResponse returns a body that does not begin     *)
(* with "event:" or "data:" unchanged, and it is idempotent on every body  *)
(* whose normalization does not itself begin with "event:" or "data:" or   *)
(* has no "data: " line: normalizing such a body twice gives what          *)
(* normalizing it once gives. A stream whose first payload is itself a     *)
(* "data: " line loses one layer with each application.                    *)
(***************************************************************************)
C33_UnwrapIdempotentOnUnwrapped ==
    /\ ret.op \in {"unwrapSSEResponse", "unwrapSSEResponse twice"} =>
          (~BeginsAsSSE(ret.data) =>
              (IF ret.op = "unwrapSSEResponse" THEN ret.out ELSE ret.once) = ret.data)
    /\ ret.op = "unwrapSSEResponse twice" =>
          /\ (~BeginsAsSSE(ret.once)) => ret.out = ret.once
          /\ (\A i \in DOMAIN LinesOf(ret.once) :
                 ~HasPrefix(LinesOf(ret.once)[i], <<DATA, SP>>)) => ret.out = ret.once
          /\ ret.out # ret.once =>
                /\ BeginsAsSSE(ret.data) /\ BeginsAsSSE(ret.once)
                /\ Len(ret.out) < Len(ret.once) /\ Len(ret.once) < Len(ret.data)

\* A stream of two data lines was normalized to its two payloads, and
\* normalizing that again changed nothing; so for a stream whose payload
\* reads as an event line.
C33_Witness ==
    /\ ret.op = "unwrapSSEResponse twice"
    /\ ret.data \in { <<DATA, SP, PING, NL, DATA, SP, ECHO, NL, NL>>,
                      <<EVENT, SP, "message", NL, DATA, SP, EVENT, SP, "message">> }
    /\ ret.once # ret.data
    /\ ret.out = ret.once

(***************************************************************************)
(* Database.GetStats statement by statement, with writers running beside   *)
(* it. GetStats opens no transaction: each QueryRow is a statement of its  *)
(* own on the shared *sql.DB, and the HTTP server runs every handler in a  *)
(* goroutine of its own, so inserts of other callers can commit between    *)
(* two of its statements. ret holds the stats map as far as it is filled.  *)
(***************************************************************************)

\* GetStats between two of its statements: pc names the next statement.
StatsRunning(pc, stats) == [op |-> "Database.GetStats running", pc |-> pc, stats |-> stats]

StatsFailed(msg) == [op |-> "Database.GetStats", err |-> msg, stats |-> Nil]

\* SELECT COUNT(*) FROM audit_requests, the first statement of a call.
GetStatsCountRequests ==
    /\ ret.op # "Database.GetStats running"
    /\ \E io \in BOOLEAN :
        ret' = IF ~io THEN StatsFailed("failed to get total request count")
               ELSE StatsRunning("total_responses",
                                 [total_requests |-> Len(audit_requests)])
    /\ UNCHANGED <<targetURL, tinybirdDB, audit_requests, audit_responses,
                   tinybird, upstream, now, calls>>

\* SELECT COUNT(*) FROM audit_responses
GetStatsCountResponses ==
    /\ ret.op = "Database.GetStats running" /\ ret.pc = "total_responses"
    /\ \E io \in BOOLEAN :
        ret' = IF ~io THEN StatsFailed("failed to get total response count")
               ELSE StatsRunning("orphaned_requests",
                                 ret.stats @@ ("total_responses" :> Len(audit_responses)))
    /\ UNCHANGED <<targetURL, tinybirdDB, audit_requests, audit_responses,
                   tinybird, upstream, now, calls>>

\* The count of the orphaned-requests join; its failure is logged only.
GetStatsCountOrphaned ==
    /\ ret.op = "Database.GetStats running" /\ ret.pc = "orphaned_requests"
    /\ \E io \in BOOLEAN :
        ret' = StatsRunning("error_count",
                  IF io THEN ret.stats @@ ("orphaned_requests" :>
                                              CountOrphaned(audit_requests, audit_responses))
                  ELSE ret.stats)
    /\ UNCHANGED <<targetURL, tinybirdDB, audit_requests, audit_responses,
                   tinybird, upstream, now, calls>>

\* The error count with the rate computed from the totalResponses read
\* before, and the return of the map.
GetStatsCountErrors ==
    /\ ret.op = "Database.GetStats running" /\ ret.pc = "error_count"
    /\ \E io \in BOOLEAN :
        ret' = [op |-> "Database.GetStats", err |-> NoError,
                stats |-> IF io
                          THEN ret.stats @@
                               ("error_count" :> CountErrors(audit_responses)) @@
                               ("error_rate" :> ErrorRate(CountErrors(audit_responses),
                                                          ret.stats.total_responses))
                          ELSE ret.stats]
    /\ UNCHANGED <<targetURL, tinybirdDB, audit_requests, audit_responses,
                   tinybird, upstream, now, calls>>

\* Another caller's Database.InsertAuditRequest commits.
ConcurrentInsertAuditRequest ==
    /\ \E req \in StoreAuditRequests, io \in BOOLEAN :
        LET res == InsertAuditRequest(audit_requests, req, io)
        IN /\ Len(res.rows) <= MaxRows
           /\ audit_requests' = res.rows
    /\ UNCHANGED <<targetURL, tinybirdDB, audit_responses, tinybird, upstream, now,
                   calls, ret>>

\* Another caller's Database.InsertAuditResponse commits.
ConcurrentInsertAuditResponse ==
    /\ \E resp \in StoreAuditResponses, io \in BOOLEAN :
        LET res == InsertAuditResponse(audit_responses, resp, io)
        IN /\ Len(res.rows) <= MaxRows
           /\ audit_responses' = res.rows
    /\ UNCHANGED <<targetURL, tinybirdDB, audit_requests, tinybird, upstream, now,
                   calls, ret>>

SnapshotNext ==
    \/ GetStatsCountRequests
    \/ GetStatsCountResponses
    \/ GetStatsCountOrphaned
    \/ GetStatsCountErrors
    \/ ConcurrentInsertAuditRequest
    \/ ConcurrentInsertAuditResponse

SnapshotSpec == StoreInit /\ [][SnapshotNext]_vars

\* The first n rows of a table: the table as it was when it had n rows (no
\* row is ever changed or removed).
FirstRows(rows, n) == SubSeq(rows, 1, n)

(***************************************************************************)
(* C35: the total_requests, total_responses and orphaned_requests GetStats *)
(* returns describe one store state, also with inserts running beside it:  *)
(* orphaned_requests is at most total_requests, and there is a state the   *)
(* two tables have been in for which the three figures are the number of   *)
(* requests, the number of responses, and the number of requests without a *)
(* response.                                                               *)
(***************************************************************************)
C35_StatsDescribeOneState ==
    (/\ ret.op = "Database.GetStats"
     /\ ret.err = NoError
     /\ "orphaned_requests" \in DOMAIN ret.stats) =>
        /\ ret.stats.orphaned_requests <= ret.stats.total_requests
        /\ \E i \in 0..Len(audit_requests), j \in 0..Len(audit_responses) :
              /\ ret.stats.total_requests = i
              /\ ret.stats.total_responses = j
              /\ ret.stats.orphaned_requests =
                    CountOrphaned(FirstRows(audit_requests, i), FirstRows(audit_responses, j))

(***************************************************************************)
(* The combined listing with and without a method filter, on one store.    *)
(***************************************************************************)

\* The requests stored while the listings are read: two methods, with and
\* without captured headers.
FilterAuditRequests ==
    { [Timestamp |-> t,
       Method |-> ParsedMethod(b),
       RequestID |-> rid,
       IPAddress |-> <<"10.0.0.1">>,
       UserAgent |-> <<"curl/8">>,
       Request |-> b,
       Headers |-> h] :
      t \in Times, rid \in StoreRequestIDs, b \in {<<PING>>, <<ECHO>>},
      h \in {Nil, CapturedHeadersJSON("User-Agent" :> <<<<"curl/8">>>>)} }

\* The method names asked for: two that are stored and one that is not.
FilterMethods == {ParsedMethod(<<PING>>), ParsedMethod(<<ECHO>>), "unknown"}

FilterInsertAuditRequest ==
    /\ \E req \in FilterAuditRequests, io \in BOOLEAN :
        LET res == InsertAuditRequest(audit_requests, req, io)
        IN /\ Len(res.rows) <= MaxRows
           /\ audit_requests' = res.rows
           /\ ret' = Returned("Database.InsertAuditRequest", res.err, res.err, req.RequestID)
    /\ UNCHANGED <<targetURL, tinybirdDB, audit_responses, tinybird, upstream, now, calls>>

\* A caller reads the whole combined view filtered by method.
QueryAuditLogsByMethod ==
    /\ \E method \in FilterMethods, io \in BOOLEAN :
        ret' = IF io
               THEN [op |-> "Database.GetAuditLogsByMethod", method |-> method,
                     items |-> GetAuditLogsByMethod(audit_requests, audit_responses,
                                                    method, MaxLimit, 0),
                     err |-> NoError]
               ELSE [op |-> "Database.GetAuditLogsByMethod", method |-> method,
                     items |-> <<>>, err |-> "failed to query audit logs by method"]
    /\ UNCHANGED <<targetURL, tinybirdDB, audit_requests, audit_responses,
                   tinybird, upstream, now, calls>>

FilterNext ==
    \/ FilterInsertAuditRequest
    \/ ListInsertAuditResponse
    \/ QueryAuditLogsByMethod

FilterSpec == StoreInit /\ [][FilterNext]_vars

\* The rows of the unfiltered listing of the store as it is, whose method
\* is m.
UnfilteredWithMethod(m) ==
    SelectSeq(GetAuditLogs(audit_requests, audit_responses, MaxLimit, 0),
              LAMBDA l : l.Method = m)

(***************************************************************************)
(* C36: the combined listing filtered by method m is the unfiltered        *)
(* combined listing of the same store restricted to the rows whose method  *)
(* is exactly m: the same rows in the same order with the same values in   *)
(* every field, headers included.                                          *)
(***************************************************************************)
C36_FilteredIsRestrictionOfUnfiltered ==
    (ret.op = "Database.GetAuditLogsByMethod" /\ ret.err = NoError) =>
        ret.items = UnfilteredWithMethod(ret.method)

\* What does hold: the filtered listing is that restriction in every field
\* but Headers, which the filtered listing leaves nil in every row.
C36_FilteredIsRestrictionWithoutHeaders ==
    (ret.op = "Database.GetAuditLogsByMethod" /\ ret.err = NoError) =>
        /\ Len(ret.items) = Len(UnfilteredWithMethod(ret.method))
        /\ \A i \in DOMAIN ret.items :
              /\ ret.items[i].Headers = Nil
              /\ ret.items[i] = [UnfilteredWithMethod(ret.method)[i] EXCEPT !.Headers = Nil]

\* No other call that has started generated the requestID of call c.
OwnsRequestID(c) ==
    /\ Started(c)
    /\ \A d \in CallIds \ {c} : Started(d) => calls[d].requestID # calls[c].requestID

(***************************************************************************)
(* C34: with several calls in flight under distinct requestIDs, every row  *)
(* stored under a call's requestID was written by that call and carries    *)
(* that call's data: an AuditResponse row the status, the error and (in    *)
(* its stored encoding) the body of that call's outcome, an AuditRequest   *)
(* row that call's method and (in its stored encoding) that call's body.   *)
(* No interleaving of the calls' steps puts one call's data under another  *)
(* call's requestID.                                                       *)
(***************************************************************************)
C34_RowsCarryOwnCallsData ==
    \A c \in CallIds :
        OwnsRequestID(c) =>
            /\ \A i \in DOMAIN audit_responses :
                  audit_responses[i].request_id = calls[c].requestID =>
                      /\ audit_responses[i].id \in RowIdsOf(c, "db.InsertAuditResponse")
                      /\ audit_responses[i].status_code = calls[c].statusCode
                      /\ audit_responses[i].response =
                            MarshalBytes(unwrapSSEResponse(calls[c].responseBody))
                      /\ calls[c].path = "forward" =>
                            /\ audit_responses[i].error = NoText
                            /\ calls[c].statusCode = calls[c].up.StatusCode
                            /\ calls[c].responseBody = calls[c].up.body
                      /\ calls[c].path = "handleError" =>
                            /\ audit_responses[i].error = calls[c].errorMsg
                            /\ calls[c].responseBody = ErrorEnvelope(calls[c].errorMsg)
            /\ \A i \in DOMAIN audit_requests :
                  audit_requests[i].request_id = calls[c].requestID =>
                      /\ audit_requests[i].id \in RowIdsOf(c, "db.InsertAuditRequest")
                      /\ audit_requests[i].method = MethodOf(calls[c].r.body)
                      /\ audit_requests[i].request = MarshalRawMessage(calls[c].r.body).out

\* Two calls with different bodies and different outcomes ran interleaved
\* under distinct requestIDs: the one that stored its request first stored
\* its response last, and each row is under its own call's requestID.
C34_Witness ==
    \E c, d \in CallIds :
        /\ OwnsRequestID(c) /\ OwnsRequestID(d)
        /\ calls[c].r.body # calls[d].r.body
        /\ calls[c].statusCode # calls[d].statusCode
        /\ \E rc \in RowIdsOf(c, "db.InsertAuditRequest"),
              rd \in RowIdsOf(d, "db.InsertAuditRequest"),
              pc \in RowIdsOf(c, "db.InsertAuditResponse"),
              pd \in RowIdsOf(d, "db.InsertAuditResponse") :
                /\ rc < rd /\ pd < pc
                /\ audit_requests[rc].request_id = calls[c].requestID
                /\ audit_requests[rd].request_id = calls[d].requestID
                /\ audit_responses[pc].request_id = calls[c].requestID
                /\ audit_responses[pd].request_id = calls[d].requestID
                /\ audit_responses[pc].status_code # audit_responses[pd].status_code

=============================================================================
